---- MODULE Spec2Model ----
(***************************************************************************)
(* A model of the Datastream filter pipeline: the filter stages of         *)
(* DSPreprocess (src/01_Filtering/filter.py) and the two drivers that      *)
(* apply them (src/01_Filtering/01_filtering_US.py, 01_filtering_EU.py).   *)
(*                                                                         *)
(* Representation.                                                         *)
(*  - A Panel (pandas DataFrame) is a sequence of rows in row order; a row *)
(*    is a record whose DOMAIN is the set of columns.                      *)
(*  - Statics is a sequence of records.                                    *)
(*  - Security identifiers (Stock, DSCD) are numbers ordered as the        *)
(*    identifier strings are ordered.                                      *)
(*  - A Date is a day number in a calendar of 30-day months                *)
(*    (DateOf, Month).                                                     *)
(*  - A float is an integer; Return is held in hundredths.  NaN is the     *)
(*    null; every comparison with NaN is false, as in IEEE arithmetic.     *)
(*  - A text (ENAME, a pattern) is a tuple of one-character strings.       *)
(*  - A call of a stage yields a result record: kind "ok" with the         *)
(*    returned value, or the kind of the exception raised.                 *)
(***************************************************************************)
EXTENDS Integers, Sequences, FiniteSets, TLC

VARIABLES
    driver,        \* which script runs: "US", "EU", or "none" (a single stage is called)
    pc,            \* the driver's position: the stage to run next
    OHLCV_panel,   \* the driver's variable OHLCV_panel
    OHLCV_panel_temp, \* the driver's variable OHLCV_panel_temp (a result record)
    statics,       \* the driver's variable statics
    final,         \* what is handed to persistence: OHLCV_panel_final, statics_for_filtered
    err,           \* the exception that ended the script, "none" while it runs
    removed,       \* history: keys <<Stock, Date>> of the rows that the stages applied
                   \* so far have removed from the Panel they were given
    call,          \* a single stage call: the stage's name and its arguments
    outcome        \* the result of the single stage call

vars == <<driver, pc, OHLCV_panel, OHLCV_panel_temp, statics, final, err,
          removed, call, outcome>>

----------------------------------------------------------------------------
(* Floats with a null *)

NaN == 0 - 9999
isna(x) == x = NaN
notna(x) == x # NaN
Lt(a, b) == notna(a) /\ notna(b) /\ a < b
Le(a, b) == notna(a) /\ notna(b) /\ a <= b
Gt(a, b) == notna(a) /\ notna(b) /\ a > b
Ge(a, b) == notna(a) /\ notna(b) /\ a >= b
Eq(a, b) == notna(a) /\ notna(b) /\ a = b
Abs(x) == IF x < 0 THEN 0 - x ELSE x

\* np.inf and -np.inf
Inf == 10 * 9999
NegInf == 0 - Inf

(* Sequences as tables *)

\* A sequence given by a rule, held as a tuple: the same value, its members
\* computed once.
AsTuple(s) == s \o <<>>

Range(s) == {s[i] : i \in DOMAIN s}
SetMax(S) == CHOOSE x \in S : \A y \in S : y <= x
SetMin(S) == CHOOSE x \in S : \A y \in S : x <= y

RECURSIVE Concat(_)
Concat(ss) == IF ss = <<>> THEN <<>> ELSE Head(ss) \o Concat(Tail(ss))

RECURSIVE SortedSeq(_)
SortedSeq(S) ==
    IF S = {} THEN <<>>
    ELSE LET m == CHOOSE x \in S : \A y \in S : x <= y
         IN <<m>> \o SortedSeq(S \ {m})

\* A stable sort of key-row pairs by their keys <<k1, k2>> (lexicographically).
KeyBefore(a, b) == a[1] < b[1] \/ (a[1] = b[1] /\ a[2] < b[2])

\* The place of pair i in the sorted order: after every pair with a smaller key
\* and after the earlier pairs with an equal key.
SortPairs(s) ==
    LET place == AsTuple([i \in DOMAIN s |->
                     1 + Cardinality({j \in DOMAIN s :
                             \/ KeyBefore(s[j][1], s[i][1])
                             \/ (~KeyBefore(s[i][1], s[j][1]) /\ j < i)})])
    IN AsTuple([p \in DOMAIN s |-> s[CHOOSE i \in DOMAIN s : place[i] = p]])

Rows(pairs) == AsTuple([i \in DOMAIN pairs |-> pairs[i][2]])

sort_values_Date(df) ==
    Rows(SortPairs(AsTuple([i \in DOMAIN df |-> <<<<df[i].Date, 0>>, df[i]>>])))

sort_values_Date_Stock(df) ==
    Rows(SortPairs(AsTuple([i \in DOMAIN df |-> <<<<df[i].Date, df[i].Stock>>, df[i]>>])))

Stocks(panel) == {panel[i].Stock : i \in DOMAIN panel}
Keys(panel) == {<<panel[i].Stock, panel[i].Date>> : i \in DOMAIN panel}
Group(panel, k) == SelectSeq(panel, LAMBDA r : r.Stock = k)

\* panel.groupby("Stock", group_keys=False)[panel.columns].apply(f): the groups'
\* results are concatenated in key order, unless every group comes back with
\* its own index (here: unchanged), and then the rows keep the Panel's order.
groupby_Stock_apply(panel, f(_)) ==
    LET ks == SortedSeq(Stocks(panel))
    IN IF \A k \in Stocks(panel) : f(Group(panel, k)) = Group(panel, k)
       THEN panel
       ELSE Concat(AsTuple([i \in DOMAIN ks |-> f(Group(panel, ks[i]))]))

isin_Stock(panel, S) == SelectSeq(panel, LAMBDA r : r.Stock \in S)

DSCDs(st) == {st[i].DSCD : i \in DOMAIN st}
CountryDSCDs(st, country) ==
    {st[i].DSCD : i \in {j \in DOMAIN st : st[j].GEOGN = country}}
CountryRows(st, country) == SelectSeq(st, LAMBDA s : s.GEOGN = country)

UniqueSeq(s) ==
    LET first == {i \in DOMAIN s : \A j \in 1..(i - 1) : s[j] # s[i]}
        nth(n) == CHOOSE i \in first : Cardinality({j \in first : j < i}) = n - 1
    IN AsTuple([n \in 1..Cardinality(first) |-> s[nth(n)]])

Countries(st) == UniqueSeq(AsTuple([i \in DOMAIN st |-> st[i].GEOGN]))

(* Results of a call *)

Ok(v) == [kind |-> "ok", value |-> v]
Raise(e) == [kind |-> e]
RaiseKeys(e, keys) == [kind |-> e, names |-> keys]

(* The calendar *)

DateOf(y, m, d) == (y * 12 + (m - 1)) * 30 + (d - 1)
EndOfMonth(y, m) == DateOf(y, m, 30)
Month(date) == date \div 30

----------------------------------------------------------------------------
(* Texts and regular expressions *)

SpecialChars == {"(", ")", "[", "]", "{", "}", "?", "*", "+", "-", "|", "^",
                 "$", "\\", ".", "&", "~", "#", " "}

RECURSIVE re_escape(_)
re_escape(p) ==
    IF p = <<>> THEN <<>>
    ELSE (IF Head(p) \in SpecialChars THEN <<"\\", Head(p)>> ELSE <<Head(p)>>)
         \o re_escape(Tail(p))

\* The text a regular expression made of escaped characters matches.
RECURSIVE RegexLiteral(_)
RegexLiteral(rx) ==
    IF rx = <<>> THEN <<>>
    ELSE IF Head(rx) = "\\" /\ Len(rx) >= 2
         THEN <<rx[2]>> \o RegexLiteral(SubSeq(rx, 3, Len(rx)))
         ELSE <<Head(rx)>> \o RegexLiteral(Tail(rx))

IsSubstring(p, s) ==
    \E i \in 0..(Len(s) - Len(p)) : SubSeq(s, i + 1, i + Len(p)) = p

\* Series.str.contains(alternatives joined by "|", case=True)
str_contains(s, alternatives) ==
    \E i \in DOMAIN alternatives : IsSubstring(RegexLiteral(alternatives[i]), s)

----------------------------------------------------------------------------
(* The country rule tables.  All four tables have the same key set.  The   *)
(* start dates are complete.  The name patterns, the cross-listing         *)
(* expressions and the currency codes are given for the countries the      *)
(* model's inputs use, the pattern lists shortened to one pattern of each  *)
(* lexical kind (letters only, with spaces, with parentheses, with a dot); *)
(* the other countries' entries stand as empty.                            *)

RuleCountries ==
    {"UNITED STATES", "AUSTRIA", "AZERBAIJAN", "BELGIUM",
     "BOSNIA AND HERZEGOVINA", "BULGARIA", "CROATIA", "CZECH REPUBLIC",
     "CYPRUS", "DENMARK", "ESTONIA", "FINLAND", "FRANCE", "GERMANY",
     "GREECE", "HUNGARY", "ICELAND", "IRELAND", "ITALY", "KAZAKHSTAN",
     "LATVIA", "LITHUANIA", "LUXEMBOURG", "NORTH MACEDONIA", "MALTA",
     "MONTENEGRO", "NETHERLANDS", "NORWAY", "POLAND", "PORTUGAL", "ROMANIA",
     "RUSSIAN FEDERATION", "SERBIA", "SLOVAKIA", "SLOVENIA", "SPAIN",
     "SWEDEN", "SWITZERLAND", "TURKEY", "UNITED KINGDOM", "UKRAINE"}

Text_WRTS == <<"W", "R", "T", "S">>
Text_NV == <<" ", "N", "V", " ">>
Text_DEB == <<"(", "D", "E", "B", ")">>
Text_EXCH == <<"E", "X", "C", "H", ".">>
Text_BDR == <<" ", "B", "D", "R">>
Text_NR == <<"N", "R", " ">>
Text_REIT == <<"R", "E", "I", "T">>
Text_GS == <<" ", "G", "S", " ">>

equity_identifers ==
    [c \in RuleCountries |->
        CASE c = "UNITED STATES" -> <<Text_NV, Text_WRTS, Text_EXCH, Text_DEB>>
          [] c = "FRANCE" -> <<Text_BDR, Text_NV, Text_NR>>
          [] c = "GERMANY" -> <<Text_REIT, Text_GS>>
          [] OTHER -> <<>>]

Rx_NYS == <<"\\", "(", "N", "Y", "S", "\\", ")">>
Rx_OTC == <<"\\", "(", "O", "T", "C", "\\", ")">>
Rx_PAR == <<"\\", "(", "P", "A", "R", "\\", ")">>
Rx_FRA == <<"\\", "(", "F", "R", "A", "\\", ")">>
Rx_XET == <<"\\", "(", "X", "E", "T", "\\", ")">>

cross_listings_dict ==
    [c \in RuleCountries |->
        CASE c = "UNITED STATES" -> <<Rx_NYS, Rx_OTC>>
          [] c = "FRANCE" -> <<Rx_PAR>>
          [] c = "GERMANY" -> <<Rx_FRA, Rx_XET>>
          [] OTHER -> <<>>]

currencies_dict ==
    [c \in RuleCountries |->
        CASE c = "UNITED STATES" -> {"U$"}
          [] c = "FRANCE" -> {"FF", "E"}
          [] c = "GERMANY" -> {"DM", "E"}
          [] c = "AZERBAIJAN" -> {"AM"}
          [] OTHER -> {}]

country_start_dates ==
    [c \in RuleCountries |->
        CASE c = "UNITED STATES" -> EndOfMonth(1984, 12)
          [] c = "AUSTRIA" -> EndOfMonth(1991, 12)
          [] c = "AZERBAIJAN" -> EndOfMonth(1900, 12)
          [] c = "BELGIUM" -> EndOfMonth(1991, 12)
          [] c = "BOSNIA AND HERZEGOVINA" -> EndOfMonth(2009, 12)
          [] c = "BULGARIA" -> EndOfMonth(2005, 12)
          [] c = "CROATIA" -> EndOfMonth(2005, 12)
          [] c = "CZECH REPUBLIC" -> EndOfMonth(1995, 12)
          [] c = "CYPRUS" -> EndOfMonth(2009, 12)
          [] c = "DENMARK" -> EndOfMonth(1987, 12)
          [] c = "ESTONIA" -> EndOfMonth(2009, 12)
          [] c = "FINLAND" -> EndOfMonth(1987, 12)
          [] c = "FRANCE" -> EndOfMonth(1981, 12)
          [] c = "GERMANY" -> EndOfMonth(1988, 12)
          [] c = "GREECE" -> EndOfMonth(1995, 12)
          [] c = "HUNGARY" -> EndOfMonth(1999, 12)
          [] c = "ICELAND" -> EndOfMonth(2005, 12)
          [] c = "IRELAND" -> EndOfMonth(1989, 12)
          [] c = "ITALY" -> EndOfMonth(1988, 12)
          [] c = "KAZAKHSTAN" -> EndOfMonth(2013, 12)
          [] c = "LATVIA" -> EndOfMonth(2009, 12)
          [] c = "LITHUANIA" -> EndOfMonth(2007, 12)
          [] c = "LUXEMBOURG" -> EndOfMonth(1994, 12)
          [] c = "NORTH MACEDONIA" -> EndOfMonth(2009, 12)
          [] c = "MALTA" -> EndOfMonth(2004, 3)
          [] c = "MONTENEGRO" -> EndOfMonth(2012, 12)
          [] c = "NETHERLANDS" -> EndOfMonth(1986, 12)
          [] c = "NORWAY" -> EndOfMonth(1986, 12)
          [] c = "POLAND" -> EndOfMonth(1995, 12)
          [] c = "PORTUGAL" -> EndOfMonth(1991, 12)
          [] c = "ROMANIA" -> EndOfMonth(2008, 12)
          [] c = "RUSSIAN FEDERATION" -> EndOfMonth(2004, 12)
          [] c = "SERBIA" -> EndOfMonth(2009, 12)
          [] c = "SLOVAKIA" -> EndOfMonth(2007, 12)
          [] c = "SLOVENIA" -> EndOfMonth(2005, 12)
          [] c = "SPAIN" -> EndOfMonth(1992, 12)
          [] c = "SWEDEN" -> EndOfMonth(1986, 12)
          [] c = "SWITZERLAND" -> EndOfMonth(1982, 12)
          [] c = "TURKEY" -> EndOfMonth(1994, 12)
          [] c = "UNITED KINGDOM" -> EndOfMonth(1984, 12)
          [] c = "UKRAINE" -> EndOfMonth(2006, 12)]

----------------------------------------------------------------------------
(* The removal-rate report: removal_percentage = 1 - kept / total, computed *)
(* with Python integers before the stage returns, so a total of zero       *)
(* raises ZeroDivisionError in place of the return.                        *)

Report(result, total) ==
    IF total = 0 THEN Raise("ZeroDivisionError") ELSE Ok(result)

(* Stages that read Statics *)

TRAC_accepted == {"ORD", "ORDSUBR", "FULLPAID", "UKNOWN", "UNKNOW", "KNOW"}

\* The report divides a numpy integer (keep_condition.sum()) by the number of
\* Statics rows: a zero total gives nan and a warning, no exception.
filter_non_common_stocks(panel, st, country) ==
    IF country \notin DOMAIN equity_identifers
    THEN RaiseKeys("ValueError", DOMAIN equity_identifers)
    ELSE LET equity_identifer ==
                 AsTuple([i \in DOMAIN equity_identifers[country] |->
                     re_escape(equity_identifers[country][i])])
             pattern_regex ==
                 AsTuple([i \in DOMAIN equity_identifer |-> re_escape(equity_identifer[i])])
             is_ord(s) == s.TRAC \in TRAC_accepted
             ename_condition(s) ==
                 IF equity_identifer # <<>>
                 THEN str_contains(s.ENAME, pattern_regex)
                 ELSE FALSE
             keep_condition(s) == is_ord(s) \/ ~ename_condition(s)
             statics_filtered == SelectSeq(st, keep_condition)
             remaining_stocks == DSCDs(statics_filtered)
         IN Ok(isin_Stock(panel, remaining_stocks))

filter_cross_listings(panel, st, country) ==
    IF country \notin DOMAIN cross_listings_dict
    THEN RaiseKeys("ValueError", DOMAIN cross_listings_dict)
    ELSE LET cross_listings == cross_listings_dict[country]
             statics_f2 ==
                 IF cross_listings # <<>>
                 THEN SelectSeq(st, LAMBDA s : ~str_contains(s.ENAME, cross_listings))
                 ELSE st
             rem_stocks_f2 == DSCDs(statics_f2)
         IN Report(isin_Stock(panel, rem_stocks_f2), Len(st))

\* A variant that reads only the Statics rows of the stocks still in the Panel.
duplicate_loc_codes_of_panel(panel, st) ==
    LET present == SelectSeq(st, LAMBDA s : s.DSCD \in Stocks(panel))
        loc_size(s) == Cardinality({i \in DOMAIN present : present[i].LOC = s.LOC})
        has_p(s) == \E i \in DOMAIN present :
                        present[i].LOC = s.LOC /\ present[i].ISINID = "P"
        statics_f3 ==
            SelectSeq(present, LAMBDA s : ~(loc_size(s) > 1 /\ has_p(s) /\ s.ISINID # "P"))
    IN Report(isin_Stock(panel, DSCDs(statics_f3)), Len(st))

\* A variant that does not ask for a "P" row in the group.
duplicate_loc_codes_without_has_p(panel, st) ==
    LET loc_size(s) == Cardinality({i \in DOMAIN st : st[i].LOC = s.LOC})
        statics_f3 == SelectSeq(st, LAMBDA s : ~(loc_size(s) > 1 /\ s.ISINID # "P"))
    IN Report(isin_Stock(panel, DSCDs(statics_f3)), Len(st))

filter_duplicate_loc_codes(panel, st) ==
    LET loc_size(s) == Cardinality({i \in DOMAIN st : st[i].LOC = s.LOC})
        has_p(s) == \E i \in DOMAIN st : st[i].LOC = s.LOC /\ st[i].ISINID = "P"
        rows_to_keep(s) == ~(loc_size(s) > 1 /\ has_p(s) /\ s.ISINID # "P")
        statics_f3 == SelectSeq(st, rows_to_keep)
        rem_stocks_f3 == DSCDs(statics_f3)
    IN Report(isin_Stock(panel, rem_stocks_f3), Len(st))

filter_foreign_currency_stocks(panel, st, country) ==
    IF country \notin DOMAIN currencies_dict
    THEN RaiseKeys("ValueError", DOMAIN currencies_dict)
    ELSE LET currency == currencies_dict[country]
             statics_f5 ==
                 SelectSeq(st, LAMBDA s : s.PCUR \in currency /\ s.GEOGN = country)
             rem_stocks_f5 == DSCDs(statics_f5)
         IN Report(isin_Stock(panel, rem_stocks_f5), Len(CountryRows(st, country)))

\* A variant that treats a country without a start date as one with full
\* history, and keeps its rows.
survivorship_with_default(panel, st, country) ==
    Ok(isin_Stock(panel, CountryDSCDs(st, country)))

\* The report is guarded: original_count > 0, else 0.0.
filter_surivorship_bias(panel, st, country) ==
    IF country \notin DOMAIN country_start_dates
    THEN RaiseKeys("ValueError", DOMAIN country_start_dates)
    ELSE LET earliest_date == country_start_dates[country]
             country_stocks == CountryDSCDs(st, country)
             panel_country == isin_Stock(panel, country_stocks)
         IN Ok(SelectSeq(panel_country, LAMBDA r : r.Date >= earliest_date))

\* A variant that keeps a country only above the minimum.
few_stocks_strict(panel, st, min_stocks) ==
    LET country_counts(c) ==
            Cardinality({k \in Stocks(panel) :
                            \E i \in DOMAIN st : st[i].DSCD = k /\ st[i].GEOGN = c})
        statics_filtered == SelectSeq(st, LAMBDA s : country_counts(s.GEOGN) > min_stocks)
    IN Ok([panel |-> isin_Stock(panel, DSCDs(statics_filtered)), statics |-> statics_filtered])

filter_countries_with_few_stocks(panel, st, min_stocks) ==
    LET country_counts(c) ==
            Cardinality({k \in Stocks(panel) :
                            \E i \in DOMAIN st : st[i].DSCD = k /\ st[i].GEOGN = c})
        valid_countries ==
            {c \in Range(Countries(st)) :
                country_counts(c) > 0 /\ country_counts(c) >= min_stocks}
        statics_filtered == SelectSeq(st, LAMBDA s : s.GEOGN \in valid_countries)
        valid_stocks == DSCDs(statics_filtered)
    IN Ok([panel |-> isin_Stock(panel, valid_stocks), statics |-> statics_filtered])

----------------------------------------------------------------------------
(* Series statistics (nulls are skipped, as pandas does) *)

RECURSIVE Sum(_)
Sum(xs) ==
    IF xs = <<>> THEN 0
    ELSE IF Len(xs) = 1 THEN xs[1]
    ELSE LET h == Len(xs) \div 2
         IN Sum(SubSeq(xs, 1, h)) + Sum(SubSeq(xs, h + 1, Len(xs)))

Column(df, c) == AsTuple([i \in DOMAIN df |-> df[i][c]])
dropna(xs) == SelectSeq(xs, notna)
Count(xs, P(_)) == Len(SelectSeq(xs, P))

\* n * sum(x^2) - sum(x)^2, which is n * (n - 1) times the sample variance
VarTimes(xs) ==
    Len(xs) * Sum(AsTuple([i \in DOMAIN xs |-> xs[i] * xs[i]])) - Sum(xs) * Sum(xs)

\* Series.std() > t and Series.std() < t, for t >= 0; std is NaN below two values
StdDefined(xs) == Len(dropna(xs)) >= 2
StdGt(xs, t) ==
    LET v == dropna(xs)
    IN StdDefined(xs) /\ VarTimes(v) > t * t * Len(v) * (Len(v) - 1)
\* A standard deviation of integers below 1e-6 is zero.
StdIsTiny(xs) == StdDefined(xs) /\ VarTimes(dropna(xs)) = 0

SortedValues(xs) == Rows(SortPairs(AsTuple([i \in DOMAIN xs |-> <<<<xs[i], 0>>, xs[i]>>])))

\* twice the median of the non-null values (NaN when there are none)
Median2(xs) ==
    LET v == SortedValues(dropna(xs))
        n == Len(v)
    IN IF n = 0 THEN NaN
       ELSE IF n % 2 = 1 THEN 2 * v[(n + 1) \div 2]
       ELSE v[n \div 2] + v[n \div 2 + 1]

\* den times Series.quantile(num / den) of the non-null values, by linear
\* interpolation between the two nearest order statistics (NaN when none)
QuantileTimes(xs, num, den) ==
    LET v == SortedValues(dropna(xs))
        n == Len(v)
        lo == ((n - 1) * num) \div den
        r == ((n - 1) * num) % den
    IN IF n = 0 THEN NaN
       ELSE IF r = 0 THEN den * v[lo + 1]
       ELSE den * v[lo + 1] + r * (v[lo + 2] - v[lo + 1])

----------------------------------------------------------------------------
(* Stages that read the Panel *)

check_implausibility(x) ==
    LET nonzero == SelectSeq(dropna(x), LAMBDA v : v # 0)
        pos == Count(nonzero, LAMBDA v : v > 0)
        neg == Count(nonzero, LAMBDA v : v < 0)
    IN IF Len(nonzero) = 0 THEN FALSE
       ELSE 100 * pos > 98 * Len(nonzero) \/ 100 * neg > 98 * Len(nonzero)

filter_implausible_returns(panel) ==
    LET stocks_implausible ==
            {k \in Stocks(panel) : check_implausibility(Column(Group(panel, k), "Return"))}
    IN Report(SelectSeq(panel, LAMBDA r : r.Stock \notin stocks_implausible), Len(panel))

\* A variant that removes every row whose Return is 0 or null.
drop_every_padded(df) ==
    SelectSeq(df, LAMBDA r : ~(r.Return = 0 \/ isna(r.Return)))

\* The loop from the last row backwards: rows are removed while Return is 0 or
\* null, up to the last row whose Return is neither.
drop_trailing(df) ==
    LET stops == {i \in DOMAIN df : ~(df[i].Return = 0 \/ isna(df[i].Return))}
    IN IF stops = {} THEN <<>> ELSE SubSeq(df, 1, SetMax(stops))

truncate_at_delisting(df0) ==
    LET df == sort_values_Date(df0)
        delist_date == df[1].Delisting_Date
    IN IF notna(delist_date)
       THEN drop_trailing(SelectSeq(df, LAMBDA r : r.Date <= delist_date))
       ELSE df

\* statics.drop_duplicates(subset="DSCD", keep="first")
drop_duplicates_DSCD(st) ==
    LET idx == SelectSeq(AsTuple([i \in DOMAIN st |-> i]),
                         LAMBDA i : \A j \in 1..(i - 1) : st[j].DSCD # st[i].DSCD)
    IN AsTuple([j \in DOMAIN idx |-> st[idx[j]]])

filter_padded_values_delistings(panel, st) ==
    LET statics_unique == drop_duplicates_DSCD(st)
        delisting(k) ==
            (CHOOSE e \in Range(statics_unique) : e.DSCD = k).Delisting_Date
        matched == isin_Stock(panel, DSCDs(statics_unique))
        panel_merged ==
            AsTuple([i \in DOMAIN matched |->
                matched[i] @@ [DSCD |-> matched[i].Stock,
                               Delisting_Date |-> delisting(matched[i].Stock)]])
    IN Report(groupby_Stock_apply(panel_merged, truncate_at_delisting), Len(panel))

\* A variant whose counter is never reset.
current_run_without_reset(prices, i) == i

\* The value of the loop's counter after its pass for row i (rows from 1; the
\* counter starts at 1 and the loop starts at the second row).
RECURSIVE current_run(_, _)
current_run(prices, i) ==
    IF i = 1 THEN 1
    ELSE IF Eq(prices[i], prices[i - 1]) THEN current_run(prices, i - 1) + 1
    ELSE 1

\* A variant that lets a run last a day longer.
stale_keep_one_more(prices, max_run) ==
    AsTuple([i \in DOMAIN prices |-> ~(i > 1 /\ current_run(prices, i) > max_run + 1)])

\* keep[i] for the rows of one stock in date order; the first row is never tested
stale_keep(prices, max_run) ==
    AsTuple([i \in DOMAIN prices |-> ~(i > 1 /\ current_run(prices, i) > max_run)])

StaleRun == 30

filter_stale_prices_for_stock(df0) ==
    LET df == sort_values_Date(df0)
        keep == stale_keep(Column(df, "ReturnIndex"), StaleRun)
        idx == SelectSeq(AsTuple([i \in DOMAIN df |-> i]), LAMBDA i : keep[i])
    IN AsTuple([j \in DOMAIN idx |-> df[idx[j]]])

filter_stale_prices(panel) ==
    Report(groupby_Stock_apply(panel, filter_stale_prices_for_stock), Len(panel))

filter_zero_return_stocks(panel) ==
    LET frac_zero_gt_95(k) ==
            LET x == Column(Group(panel, k), "Return")
            IN 100 * Count(x, LAMBDA v : v = 0) > 95 * Len(x)
        stocks_too_many_zeros == {k \in Stocks(panel) : frac_zero_gt_95(k)}
    IN Report(SelectSeq(panel, LAMBDA r : r.Stock \notin stocks_too_many_zeros), Len(panel))

\* volatility_threshold is in hundredths, as Return is
filter_stocks_by_high_volatility(panel, volatility_threshold) ==
    LET stocks_to_filter ==
            {k \in Stocks(panel) :
                StdGt(Column(Group(panel, k), "Return"), volatility_threshold)}
    IN Report(SelectSeq(panel, LAMBDA r : r.Stock \notin stocks_to_filter), Len(panel))

filter_stocks_by_low_volatility(panel) ==
    LET low_vol_stocks ==
            {k \in Stocks(panel) : StdIsTiny(Column(Group(panel, k), "Return"))}
    IN Report(SelectSeq(panel, LAMBDA r : r.Stock \notin low_vol_stocks), Len(panel))

\* panel.groupby("Stock", group_keys=False)[panel.columns].apply(f) for an f that
\* renumbers its rows (reset_index): the results are concatenated in key order.
groupby_Stock_concat(panel, f(_)) ==
    LET ks == SortedSeq(Stocks(panel))
    IN Concat(AsTuple([i \in DOMAIN ks |-> f(Group(panel, ks[i]))]))

Dates(panel) == {panel[i].Date : i \in DOMAIN panel}

\* A variant without the exemption of the stocks first seen near the end.
short_history_without_exemption(panel, threshold) ==
    Report(SelectSeq(panel, LAMBDA r : Len(Group(panel, r.Stock)) >= threshold),
           Len(panel))

filter_short_history_stocks(panel, threshold) ==
    LET overall_last_date == SetMax(Dates(panel))
        stock_filter(k) ==
            LET group == Group(panel, k)
                num_obs == Len(group)
                first_date == SetMin(Dates(group))
            IN IF overall_last_date - first_date < threshold
               THEN TRUE
               ELSE num_obs >= threshold
    IN Report(SelectSeq(panel, LAMBDA r : stock_filter(r.Stock)), Len(panel))

\* A variant that marks the flagged day alone, without the day after it.
filter_stock_first_day_only(group0, up_ts, down_ts, method) ==
    LET group == sort_values_Date(group0)
        ret == Column(group, "Return")
        n == Len(group)
        cond1(i) == Gt(ret[i], up_ts) /\ i < n /\ Lt(ret[i + 1], down_ts)
        cond2(i) == Lt(ret[i], down_ts) /\ i < n /\ Gt(ret[i + 1], up_ts)
        outlier(i) == cond1(i) \/ cond2(i)
        idx == SelectSeq(AsTuple([i \in DOMAIN group |-> i]), LAMBDA i : ~outlier(i))
    IN IF method = "drop"
       THEN AsTuple([j \in DOMAIN idx |-> group[idx[j]]])
       ELSE AsTuple([i \in DOMAIN group |->
                IF outlier(i) THEN [group[i] EXCEPT !.Return = 0] ELSE group[i]])

filter_stock(group0, up_ts, down_ts, method) ==
    LET group == sort_values_Date(group0)
        ret == Column(group, "Return")
        n == Len(group)
        cond1(i) == Gt(ret[i], up_ts) /\ i < n /\ Lt(ret[i + 1], down_ts)
        cond2(i) == Lt(ret[i], down_ts) /\ i < n /\ Gt(ret[i + 1], up_ts)
        outlier(i) == cond1(i) \/ cond2(i)
        to_replace(i) == outlier(i) \/ (i > 1 /\ outlier(i - 1))
        idx == SelectSeq(AsTuple([i \in DOMAIN group |-> i]), LAMBDA i : ~to_replace(i))
    IN IF method = "drop"
       THEN AsTuple([j \in DOMAIN idx |-> group[idx[j]]])
       ELSE AsTuple([i \in DOMAIN group |->
                IF to_replace(i) THEN [group[i] EXCEPT !.Return = 0] ELSE group[i]])

\* up_ts and down_ts are in hundredths, as Return is
filter_outlier_errors(panel, up_ts, down_ts, method) ==
    IF method \notin {"drop", "zero"}
    THEN Raise("ValueError")
    ELSE Report(groupby_Stock_concat(panel,
                    LAMBDA g : filter_stock(g, up_ts, down_ts, method)),
                Len(panel))

\* A variant that keeps a date only above the threshold.
filter_holidays_strict(panel, threshold) ==
    LET total_stocks == Cardinality(Stocks(panel))
        daily_active(d) ==
            Cardinality({i \in DOMAIN panel :
                panel[i].Date = d /\ notna(panel[i].Return) /\ panel[i].Return # 0})
        valid_dates ==
            {d \in Dates(panel) : 1000 * daily_active(d) > threshold * total_stocks}
    IN Report(SelectSeq(panel, LAMBDA r : r.Date \in valid_dates), Len(panel))

\* threshold is in thousandths
filter_holidays(panel, threshold) ==
    LET total_stocks == Cardinality(Stocks(panel))
        daily_active(d) ==
            Count(SelectSeq(panel, LAMBDA r : r.Date = d),
                  LAMBDA r : notna(r.Return) /\ r.Return # 0)
        valid_dates ==
            {d \in Dates(panel) : 1000 * daily_active(d) >= threshold * total_stocks}
    IN Report(SelectSeq(panel, LAMBDA r : r.Date \in valid_dates), Len(panel))

\* GroupBy.last(): the last non-null value, NaN when there is none
last_valid(xs) == IF dropna(xs) = <<>> THEN NaN ELSE dropna(xs)[Len(dropna(xs))]

Months(panel) == {Month(panel[i].Date) : i \in DOMAIN panel}

LastUnadjClose(panel, k, m) ==
    last_valid(Column(sort_values_Date(
        SelectSeq(panel, LAMBDA r : r.Stock = k /\ Month(r.Date) = m)), "UnadjClose"))

\* monthly.groupby('Stock')['LastUnadjClose'].shift(1): the value of the stock's
\* preceding row of the monthly table
prev_UnadjClose(panel, k, m) ==
    LET earlier == {x \in Months(Group(panel, k)) : x < m}
    IN IF earlier = {} THEN NaN ELSE LastUnadjClose(panel, k, SetMax(earlier))

\* percentile is num / den; a threshold is held multiplied by den
filter_penny_stocks(panel0, num, den) ==
    LET panel ==
            AsTuple([i \in DOMAIN panel0 |->
                panel0[i] @@ [prev_UnadjClose |->
                    prev_UnadjClose(panel0, panel0[i].Stock, Month(panel0[i].Date))]])
        quantile(m) ==
            QuantileTimes(Column(SelectSeq(panel, LAMBDA r : Month(r.Date) = m),
                                 "prev_UnadjClose"), num, den)
        panel_filtered ==
            SelectSeq(panel, LAMBDA r :
                isna(r.prev_UnadjClose)
                \/ Ge(den * r.prev_UnadjClose, quantile(Month(r.Date))))
    IN Report(<<panel_filtered, [m \in Months(panel) |-> quantile(m)]>>, Len(panel))

Max3(a, b, c) ==
    LET S == {x \in {a, b, c} : notna(x)} IN IF S = {} THEN NaN ELSE SetMax(S)
Min3(a, b, c) ==
    LET S == {x \in {a, b, c} : notna(x)} IN IF S = {} THEN NaN ELSE SetMin(S)

valid_mask(r) ==
    LET max_val == Max3(r.Open, r.Close, r.Low)
        min_val == Min3(r.Open, r.Close, r.High)
    IN (isna(r.High) \/ Ge(r.High, max_val)) /\ (isna(r.Low) \/ Le(r.Low, min_val))

filter_implausible_prices(panel) ==
    Report(SelectSeq(panel, valid_mask), Len(panel))

\* A variant that does not look at Volume.
drop_identical_high_low(group) ==
    LET drop(i) ==
            /\ i > 1
            /\ Eq(group[i].High, group[i - 1].High)
            /\ Eq(group[i].Low, group[i - 1].Low)
        idx == SelectSeq(AsTuple([i \in DOMAIN group |-> i]), LAMBDA i : ~drop(i))
    IN AsTuple([j \in DOMAIN idx |-> group[idx[j]]])

drop_identical(group) ==
    LET drop(i) ==
            /\ i > 1
            /\ Eq(group[i].High, group[i - 1].High)
            /\ Eq(group[i].Low, group[i - 1].Low)
            /\ Eq(group[i].Volume, group[i - 1].Volume)
        idx == SelectSeq(AsTuple([i \in DOMAIN group |-> i]), LAMBDA i : ~drop(i))
    IN AsTuple([j \in DOMAIN idx |-> group[idx[j]]])

filter_no_trading_activity(panel) ==
    Report(groupby_Stock_apply(panel, drop_identical), Len(panel))

\* n_std is a whole number; Return lies within n_std standard deviations of the
\* median of its date
filter_extreme_returns2(panel, n_std) ==
    LET within(r) ==
            LET x == dropna(Column(SelectSeq(panel, LAMBDA q : q.Date = r.Date), "Return"))
                dev == 2 * r.Return - Median2(x)
            IN Len(x) >= 2
               /\ dev * dev * Len(x) * (Len(x) - 1) <= 4 * n_std * n_std * VarTimes(x)
    IN Report(SelectSeq(panel, LAMBDA r : isna(r.Return) \/ within(r)), Len(panel))

\* threshold is in hundredths; diff_percentage is NaN for a null input and for
\* 0 / 0, infinite for a non-zero difference over a zero expected price
filter_adjustment_inconsistencies(panel, threshold) ==
    LET keep(r) ==
            LET expected_UP == r.Close * r.AdjFactor
                diff == Abs(r.UnadjClose - expected_UP)
            IN \/ isna(r.Close) \/ isna(r.AdjFactor) \/ isna(r.UnadjClose)
               \/ (expected_UP = 0 /\ diff = 0)
               \/ expected_UP < 0
               \/ (expected_UP > 0 /\ 100 * diff <= threshold * expected_UP)
    IN Report(SelectSeq(panel, keep), Len(panel))

\* A variant that leaves the infinite values in place.
replace_nothing(df) == df

\* df.replace([np.inf, -np.inf], np.nan)
replace_inf(df) ==
    AsTuple([i \in DOMAIN df |->
        [col \in DOMAIN df[i] |-> IF df[i][col] \in {Inf, NegInf} THEN NaN ELSE df[i][col]]])

ffill_cols == {"Open", "High", "Low", "Close", "Volume", "ReturnIndex",
               "AdjFactor", "UnadjClose"}
bfill_cols == {"MarketCAP"}

\* a null takes the last non-null value before it, if there is one
ffill(xs) ==
    AsTuple([i \in DOMAIN xs |->
        LET valid == {j \in 1..i : notna(xs[j])}
        IN IF valid = {} THEN NaN ELSE xs[SetMax(valid)]])

\* a null takes the first non-null value after it, if there is one
bfill(xs) ==
    AsTuple([i \in DOMAIN xs |->
        LET valid == {j \in i..Len(xs) : notna(xs[j])}
        IN IF valid = {} THEN NaN ELSE xs[SetMin(valid)]])

\* A variant that keeps the rows before the first complete row.
fill_without_truncation(group0) ==
    LET filled(c) ==
            IF c \in ffill_cols THEN ffill(Column(group0, c))
            ELSE IF c \in bfill_cols THEN bfill(ffill(Column(group0, c)))
            ELSE Column(group0, c)
    IN IF \E r \in Range(group0) : \A c \in ffill_cols : notna(r[c])
       THEN AsTuple([i \in DOMAIN group0 |-> [c \in DOMAIN group0[i] |-> filled(c)[i]]])
       ELSE <<>>

drop_and_fill_missings(group0) ==
    LET valid_rows == SelectSeq(group0, LAMBDA r : \A c \in ffill_cols : notna(r[c]))
    IN IF valid_rows # <<>>
       THEN LET first_valid_date == SetMin(Dates(valid_rows))
                group == SelectSeq(group0, LAMBDA r : r.Date >= first_valid_date)
                filled(c) ==
                    IF c \in ffill_cols THEN ffill(Column(group, c))
                    ELSE IF c \in bfill_cols THEN bfill(ffill(Column(group, c)))
                    ELSE Column(group, c)
            IN AsTuple([i \in DOMAIN group |-> [c \in DOMAIN group[i] |-> filled(c)[i]]])
       ELSE <<>>

\* groupby(...).apply(drop_and_fill_missings): when no group loses a row, every
\* group comes back with its own index and the rows keep the Panel's order.
apply_drop_and_fill(panel) ==
    LET f(k) == drop_and_fill_missings(Group(panel, k))
        rank(i) == Cardinality({j \in 1..i : panel[j].Stock = panel[i].Stock})
    IN IF \A k \in Stocks(panel) : Len(f(k)) = Len(Group(panel, k))
       THEN AsTuple([i \in DOMAIN panel |-> f(panel[i].Stock)[rank(i)]])
       ELSE groupby_Stock_concat(panel, drop_and_fill_missings)

\* The median of MarketCAP over the rows of one date; the model's inputs hold
\* even MarketCAP values, so the median of two of them is a whole number.
median_MarketCAP(panel, d) ==
    LET m2 == Median2(Column(SelectSeq(panel, LAMBDA r : r.Date = d), "MarketCAP"))
    IN IF isna(m2) THEN NaN ELSE m2 \div 2

\* The report is guarded: panel.shape[0] == 0 gives 0.
handle_missings(panel0, st, country) ==
    LET country_stocks == CountryDSCDs(st, country)
        panel == replace_inf(isin_Stock(panel0, country_stocks))
        panel_filtered == apply_drop_and_fill(panel)
    IN Ok(AsTuple([i \in DOMAIN panel_filtered |->
              IF isna(panel_filtered[i].MarketCAP)
              THEN [panel_filtered[i] EXCEPT
                       !.MarketCAP = median_MarketCAP(panel_filtered, panel_filtered[i].Date)]
              ELSE panel_filtered[i]]))

----------------------------------------------------------------------------
(* The drivers: 01_filtering_US.py and 01_filtering_EU.py, statement by    *)
(* statement from the point where the raw files have been read and         *)
(* concatenated.  A statement that raises ends the script (pc "crashed").  *)

DataFrame(df) == [type |-> "DataFrame", df |-> df]
Tuple(items) == [type |-> "tuple", items |-> items]
Unbound == [type |-> "unbound"]
NoCall == [fn |-> "none"]
NoFinal == [panel |-> <<>>, statics |-> <<>>]

\* OHLCV_panel.drop_duplicates(subset=["Stock", "Date"], keep="first")
drop_duplicates_Stock_Date(df) ==
    LET idx == SelectSeq(AsTuple([i \in DOMAIN df |-> i]),
                         LAMBDA i : \A j \in 1..(i - 1) :
                             <<df[j].Stock, df[j].Date>> # <<df[i].Stock, df[i].Date>>)
    IN AsTuple([j \in DOMAIN idx |-> df[idx[j]]])

\* mask = ReturnIndex < 1e-6 on whole numbers: ReturnIndex <= 0
null_small_ReturnIndex(df) ==
    AsTuple([i \in DOMAIN df |->
        IF Lt(df[i].ReturnIndex, 1) THEN [df[i] EXCEPT !.ReturnIndex = NaN] ELSE df[i]])

\* x / x.shift(1) - 1 in hundredths
simple_return(x, x_prev) ==
    IF isna(x) \/ isna(x_prev) THEN NaN ELSE (100 * x) \div x_prev - 100

\* A variant that shifts the whole column, not each stock's rows.
compute_Return_ungrouped(df) ==
    AsTuple([i \in DOMAIN df |->
        df[i] @@ [Return |-> simple_return(df[i].ReturnIndex,
                                           IF i = 1 THEN NaN ELSE df[i - 1].ReturnIndex)]])

\* groupby("Stock")["ReturnIndex"].transform(lambda x: x / x.shift(1) - 1)
compute_Return(df) ==
    LET before(i) == {j \in 1..(i - 1) : df[j].Stock = df[i].Stock}
        shifted(i) == IF before(i) = {} THEN NaN ELSE df[SetMax(before(i))].ReturnIndex
    IN AsTuple([i \in DOMAIN df |->
           df[i] @@ [Return |-> simple_return(df[i].ReturnIndex, shifted(i))]])

\* [f(OHLCV_panel[Stock.isin(DSCD of country)], statics, country)
\*    for country in statics['GEOGN'].unique()], then pd.concat(panels_temp)
fan_out(panel, st, f(_, _, _)) ==
    LET cs == Countries(st)
        res == AsTuple([i \in DOMAIN cs |-> f(isin_Stock(panel, CountryDSCDs(st, cs[i])), st, cs[i])])
        failed == {i \in DOMAIN cs : res[i].kind # "ok"}
    IN IF failed # {} THEN res[SetMin(failed)]
       ELSE IF cs = <<>> THEN Raise("ValueError")
       ELSE Ok(Concat(AsTuple([i \in DOMAIN cs |-> res[i].value])))

US == "UNITED STATES"

Running == err = "none"

Crash(e) ==
    /\ err' = e
    /\ pc' = "crashed"

\* OHLCV_panel = <stage>(OHLCV_panel, ...)
PanelStage(here, next, res) ==
    /\ pc = here
    /\ IF res.kind = "ok"
       THEN /\ OHLCV_panel' = res.value
            /\ removed' = removed \cup (Keys(OHLCV_panel) \ Keys(res.value))
            /\ pc' = next
            /\ err' = err
       ELSE /\ Crash(res.kind)
            /\ UNCHANGED <<OHLCV_panel, removed>>
    /\ UNCHANGED <<driver, OHLCV_panel_temp, statics, final, call, outcome>>

\* OHLCV_panel_temp = <stage>(OHLCV_panel_temp, ...), which needs a DataFrame
\* in OHLCV_panel_temp: a stage indexes or groups its argument
TempStage(here, next, f(_)) ==
    /\ pc = here
    /\ IF OHLCV_panel_temp.type # "DataFrame"
       THEN Crash("TypeError") /\ UNCHANGED <<OHLCV_panel_temp, removed>>
       ELSE LET res == f(OHLCV_panel_temp.df)
            IN IF res.kind = "ok"
               THEN /\ OHLCV_panel_temp' = DataFrame(res.value)
                    /\ removed' = removed \cup (Keys(OHLCV_panel_temp.df) \ Keys(res.value))
                    /\ pc' = next
                    /\ err' = err
               ELSE Crash(res.kind) /\ UNCHANGED <<OHLCV_panel_temp, removed>>
    /\ UNCHANGED <<driver, OHLCV_panel, statics, final, call, outcome>>

SortAndDeduplicate ==
    PanelStage("sort_dedup", "returns",
               Ok(drop_duplicates_Stock_Date(sort_values_Date_Stock(OHLCV_panel))))

ComputeReturn ==
    /\ pc = "returns"
    /\ OHLCV_panel' = compute_Return(null_small_ReturnIndex(OHLCV_panel))
    /\ pc' = "restrict"
    /\ UNCHANGED <<driver, OHLCV_panel_temp, statics, final, err, removed, call, outcome>>

\* US: statics[GEOGN == 'UNITED STATES'].  EU: the date window on the Panel, the
\* unknown and US country codes dropped, GUERNSEY relabelled.
RestrictCountries ==
    /\ pc = "restrict"
    /\ IF driver = "US"
       THEN /\ statics' = CountryRows(statics, US)
            /\ UNCHANGED <<OHLCV_panel, removed>>
       ELSE LET windowed ==
                    SelectSeq(OHLCV_panel, LAMBDA r :
                        r.Date <= EndOfMonth(2025, 1) /\ r.Date > DateOf(1994, 1, 1))
                kept == SelectSeq(statics, LAMBDA s : s.GEOGN \notin {"nan", US})
            IN /\ OHLCV_panel' = windowed
               /\ removed' = removed \cup (Keys(OHLCV_panel) \ Keys(windowed))
               /\ statics' =
                      AsTuple([i \in DOMAIN kept |->
                          IF kept[i].GEOGN = "GUERNSEY"
                          THEN [kept[i] EXCEPT !.GEOGN = "UNITED KINGDOM"]
                          ELSE kept[i]])
    /\ pc' = "non_common"
    /\ UNCHANGED <<driver, OHLCV_panel_temp, final, err, call, outcome>>

PerCountry(f(_, _, _)) ==
    IF driver = "US" THEN f(OHLCV_panel, statics, US) ELSE fan_out(OHLCV_panel, statics, f)

NonCommonStocks ==
    PanelStage("non_common", "cross_listings", PerCountry(filter_non_common_stocks))

CrossListings ==
    PanelStage("cross_listings", "duplicate_loc", PerCountry(filter_cross_listings))

DuplicateLocCodes ==
    PanelStage("duplicate_loc", "foreign_firms",
               filter_duplicate_loc_codes(OHLCV_panel, statics))

ForeignFirms ==
    PanelStage("foreign_firms", "foreign_currency",
               Ok(isin_Stock(OHLCV_panel, DSCDs(statics))))

\* The US script leaves the survivorship stage out.
ForeignCurrency ==
    PanelStage("foreign_currency",
               IF driver = "US" THEN "implausible_returns" ELSE "survivorship",
               PerCountry(filter_foreign_currency_stocks))

SurvivorshipBias ==
    PanelStage("survivorship", "implausible_returns",
               fan_out(OHLCV_panel, statics, filter_surivorship_bias))

ImplausibleReturns ==
    PanelStage("implausible_returns", "padded", filter_implausible_returns(OHLCV_panel))

PaddedValuesDelistings ==
    PanelStage("padded", "zero_return",
               filter_padded_values_delistings(OHLCV_panel, statics))

ZeroReturnStocks ==
    PanelStage("zero_return", "stale", filter_zero_return_stocks(OHLCV_panel))

StalePrices ==
    PanelStage("stale", "high_vol", filter_stale_prices(OHLCV_panel))

HighVolatility ==
    PanelStage("high_vol", "low_vol", filter_stocks_by_high_volatility(OHLCV_panel, 40))

LowVolatility ==
    PanelStage("low_vol", "outlier", filter_stocks_by_low_volatility(OHLCV_panel))

OutlierErrors ==
    PanelStage("outlier", "holidays",
               filter_outlier_errors(OHLCV_panel, 100, 0 - 50, "drop"))

Holidays ==
    PanelStage("holidays", "implausible_prices", filter_holidays(OHLCV_panel, 5))

ImplausiblePrices ==
    PanelStage("implausible_prices", "no_trading", filter_implausible_prices(OHLCV_panel))

NoTradingActivity ==
    PanelStage("no_trading", "handle_missings", filter_no_trading_activity(OHLCV_panel))

HandleMissings ==
    PanelStage("handle_missings",
               IF driver = "US" THEN "manual" ELSE "adjustment",
               PerCountry(handle_missings))

\* The US script's exclusion list: of its entries, the two with numeric
\* identifiers (the others are whole stocks and single stock-days alike).
manual_exclusion(r) ==
    \/ (r.Stock = 680683 /\ r.Date < DateOf(2010, 1, 1))
    \/ r.Stock = 872328

ManualRemoval ==
    PanelStage("manual", "adjustment",
               Ok(SelectSeq(OHLCV_panel, LAMBDA r : ~manual_exclusion(r))))

\* OHLCV_panel_temp = filter_adjustment_inconsistencies(OHLCV_panel, threshold=0.05)
AdjustmentInconsistencies ==
    /\ pc = "adjustment"
    /\ LET res == filter_adjustment_inconsistencies(OHLCV_panel, 5)
       IN IF res.kind = "ok"
          THEN /\ OHLCV_panel_temp' = DataFrame(res.value)
               /\ removed' = removed \cup (Keys(OHLCV_panel) \ Keys(res.value))
               /\ pc' = "penny"
               /\ err' = err
          ELSE Crash(res.kind) /\ UNCHANGED <<OHLCV_panel_temp, removed>>
    /\ UNCHANGED <<driver, OHLCV_panel, statics, final, call, outcome>>

\* US: OHLCV_panel, penny_thresholds = filter_penny_stocks(OHLCV_panel, 0.10)
\* EU: OHLCV_panel_temp = filter_penny_stocks(OHLCV_panel_temp, 0.10)
PennyStocks ==
    /\ pc = "penny"
    /\ LET arg == IF driver = "US" THEN OHLCV_panel ELSE OHLCV_panel_temp.df
           res == filter_penny_stocks(arg, 1, 10)
       IN IF res.kind = "ok"
          THEN /\ IF driver = "US"
                  THEN OHLCV_panel' = res.value[1] /\ UNCHANGED OHLCV_panel_temp
                  ELSE OHLCV_panel_temp' = Tuple(res.value) /\ UNCHANGED OHLCV_panel
               /\ removed' = removed \cup (Keys(arg) \ Keys(res.value[1]))
               /\ pc' = IF driver = "US" THEN "save_thresholds" ELSE "few_stocks"
               /\ err' = err
          ELSE Crash(res.kind) /\ UNCHANGED <<OHLCV_panel, OHLCV_panel_temp, removed>>
    /\ UNCHANGED <<driver, statics, final, call, outcome>>

\* US: penny_thresholds.to_csv(...).  penny_thresholds is the grouped series the
\* stage returns beside the Panel, not a table; whether a grouped series offers
\* to_csv is decided by the installed pandas: the file is written, or the
\* attribute lookup raises AttributeError.
SaveThresholds ==
    /\ pc = "save_thresholds"
    /\ \/ pc' = "extreme_returns" /\ err' = err
       \/ Crash("AttributeError")
    /\ UNCHANGED <<driver, OHLCV_panel, OHLCV_panel_temp, statics, final, removed,
                   call, outcome>>

\* EU: OHLCV_panel_temp, statics = filter_countries_with_few_stocks(OHLCV_panel_temp, statics)
\* whose first statement is OHLCV_panel[['Stock']]
CountriesWithFewStocks ==
    /\ pc = "few_stocks"
    /\ IF OHLCV_panel_temp.type # "DataFrame"
       THEN Crash("TypeError") /\ UNCHANGED <<OHLCV_panel_temp, statics, removed>>
       ELSE LET res == filter_countries_with_few_stocks(OHLCV_panel_temp.df, statics, 20)
            IN /\ OHLCV_panel_temp' = DataFrame(res.value.panel)
               /\ statics' = res.value.statics
               /\ removed' = removed \cup (Keys(OHLCV_panel_temp.df) \ Keys(res.value.panel))
               /\ pc' = "extreme_returns"
               /\ err' = err
    /\ UNCHANGED <<driver, OHLCV_panel, final, call, outcome>>

\* US: OHLCV_panel = filter_extreme_returns2(OHLCV_panel, n_std=10)
\* EU: OHLCV_panel_temp = filter_extreme_returns2(OHLCV_panel_temp, n_std=5)
ExtremeReturns ==
    IF driver = "US"
    THEN PanelStage("extreme_returns", "short_history",
                    filter_extreme_returns2(OHLCV_panel, 10))
    ELSE TempStage("extreme_returns", "short_history",
                   LAMBDA df : filter_extreme_returns2(df, 5))

ShortHistory ==
    IF driver = "US"
    THEN PanelStage("short_history", "final", filter_short_history_stocks(OHLCV_panel, 120))
    ELSE TempStage("short_history", "final",
                   LAMBDA df : filter_short_history_stocks(df, 120))

\* OHLCV_panel.replace([np.inf, -np.inf], np.nan, inplace=True)
\* OHLCV_panel_final = OHLCV_panel.dropna(subset=['Return'])
\* statics_for_filtered = statics[statics.DSCD.isin(OHLCV_panel_final.Stock.unique())]
FinalCleanup ==
    /\ pc = "final"
    /\ LET replaced == replace_inf(OHLCV_panel)
           OHLCV_panel_final == SelectSeq(replaced, LAMBDA r : notna(r.Return))
       IN /\ OHLCV_panel' = replaced
          /\ final' = [panel |-> OHLCV_panel_final,
                       statics |-> SelectSeq(statics, LAMBDA s :
                                       s.DSCD \in Stocks(OHLCV_panel_final))]
          /\ removed' = removed \cup (Keys(OHLCV_panel) \ Keys(OHLCV_panel_final))
    /\ pc' = "done"
    /\ UNCHANGED <<driver, OHLCV_panel_temp, statics, err, call, outcome>>

----------------------------------------------------------------------------
(* Inputs of a driver run: the raw files as read.                          *)

NumDates == 4

\* The last three trading days of a month and the days of the next month.
FirstDate == DateOf(2000, 1, 28)

PlainName == <<"A", "B", "C">>

home_currency(country) ==
    IF country = "UNITED STATES" THEN "U$"
    ELSE IF country = "FRANCE" THEN "FF" ELSE "DM"

StaticsRow(dscd, country) ==
    [DSCD |-> dscd, ENAME |-> PlainName, GEOGN |-> country, ISINID |-> "P",
     LOC |-> dscd, PCUR |-> home_currency(country), TRAC |-> "ORD",
     Delisting_Date |-> NaN]

\* The Statics rows the files may hold: stock 1 twice under the United States,
\* and under France as well as under Germany; stock 2 under one country each.
StaticsTable ==
    <<StaticsRow(1, "UNITED STATES"), StaticsRow(1, "UNITED STATES"),
      StaticsRow(2, "UNITED STATES"), StaticsRow(1, "FRANCE"),
      StaticsRow(2, "FRANCE"), StaticsRow(1, "GERMANY")>>

\* Every sequence of at most n members of S.
RECURSIVE SeqsUpTo(_, _)
SeqsUpTo(S, n) ==
    IF n = 0 THEN {<<>>}
    ELSE LET shorter == SeqsUpTo(S, n - 1)
         IN shorter \cup {Append(q, x) : q \in {t \in shorter : Len(t) = n - 1}, x \in S}

\* Every selection of rows of a table, in the table's order.
Selections(table) ==
    {LET idx == SortedSeq(I) IN AsTuple([j \in DOMAIN idx |-> table[idx[j]]]) :
        I \in SUBSET DOMAIN table}

\* Two securities of one local code: the primary listing, stock 1, is a
\* warrant by name and type, stock 2 is a secondary listing.
SharedLocStatics ==
    <<[StaticsRow(1, "UNITED STATES") EXCEPT !.ENAME = <<"A">> \o Text_WRTS,
                                             !.TRAC = "WTS", !.LOC = 7],
      [StaticsRow(2, "UNITED STATES") EXCEPT !.LOC = 7, !.ISINID = "S"]>>

\* Statics as read: any selection of rows of the table, or the two securities
\* of one local code.
StaticsInputs == Selections(StaticsTable) \cup {SharedLocStatics}

\* Row i of stock k: the return index alternates between 4 and 5, the volume
\* between 1 and 2; the unadjusted close is 10 = Close * AdjFactor except on
\* row `bad` of stock 1, where it is 20.
RawRow(k, i, bad) ==
    [Stock |-> k, Date |-> FirstDate + i - 1,
     Open |-> 10, High |-> 10, Low |-> 10, Close |-> 10,
     Volume |-> 1 + (i % 2),
     ReturnIndex |-> 4 + ((i + k) % 2),
     UnadjClose |-> IF k = 1 /\ i = bad THEN 20 ELSE 10,
     AdjFactor |-> 1, MarketCAP |-> 4]

\* The files hold stock 1, then stock 2; with `dup` the first stock-day of
\* stock 1 is delivered a second time; with `inf` the market value of stock 2
\* is 8 on its second day and infinite on its third.
RawPanel(bad, dup, inf) ==
    Concat(AsTuple([k \in 1..2 |-> AsTuple([i \in 1..NumDates |->
        IF inf /\ k = 2 /\ i \in {2, 3}
        THEN [RawRow(k, i, bad) EXCEPT !.MarketCAP = IF i = 2 THEN 8 ELSE Inf]
        ELSE RawRow(k, i, bad)])]))
        \o (IF dup THEN <<[RawRow(1, 1, bad) EXCEPT !.MarketCAP = 6]>> ELSE <<>>)

PanelInputs ==
    {RawPanel(bad, dup, inf) : bad \in {0, 2, 3}, dup \in BOOLEAN, inf \in BOOLEAN}

Init ==
    /\ driver \in {"US", "EU"}
    /\ pc = "sort_dedup"
    /\ OHLCV_panel \in PanelInputs
    /\ OHLCV_panel_temp = Unbound
    /\ statics \in StaticsInputs
    /\ final = NoFinal
    /\ err = "none"
    /\ removed = {}
    /\ call = NoCall
    /\ outcome = NoCall

Next ==
    \/ SortAndDeduplicate
    \/ ComputeReturn
    \/ RestrictCountries
    \/ NonCommonStocks
    \/ CrossListings
    \/ DuplicateLocCodes
    \/ ForeignFirms
    \/ ForeignCurrency
    \/ SurvivorshipBias
    \/ ImplausibleReturns
    \/ PaddedValuesDelistings
    \/ ZeroReturnStocks
    \/ StalePrices
    \/ HighVolatility
    \/ LowVolatility
    \/ OutlierErrors
    \/ Holidays
    \/ ImplausiblePrices
    \/ NoTradingActivity
    \/ HandleMissings
    \/ ManualRemoval
    \/ AdjustmentInconsistencies
    \/ PennyStocks
    \/ SaveThresholds
    \/ CountriesWithFewStocks
    \/ ExtremeReturns
    \/ ShortHistory
    \/ FinalCleanup

Spec == Init /\ [][Next]_vars

----------------------------------------------------------------------------
(* Properties of the drivers *)

\* C1 (monotonic narrowing): no step of a driver, a per-country fan-out step
\* included, leaves OHLCV_panel with more rows than it had, nor statics with
\* more rows than it had.
C1_MonotonicNarrowing ==
    [][/\ Len(OHLCV_panel') <= Len(OHLCV_panel)
       /\ Len(statics') <= Len(statics)]_vars

\* C2 (referential integrity): when a driver has reached its terminal state,
\* every Stock of the final Panel has exactly one row in the final Statics whose
\* DSCD equals it.
C2_ReferentialIntegrity ==
    pc = "done" =>
        \A k \in Stocks(final.panel) :
            Cardinality({i \in DOMAIN final.statics : final.statics[i].DSCD = k}) = 1

\* C3 (threading): a row that an applied stage removed from the Panel it was
\* given is not in the final Panel handed to persistence.
C3_RemovedRowsStayRemoved ==
    pc = "done" => Keys(final.panel) \cap removed = {}

\* C4 (totality): the stages that follow the penny-stock stage are given a
\* Panel table, and no run ends because a stage was given something else.
C4_StagesReceivePanels ==
    /\ (driver = "EU" /\ pc \in {"few_stocks", "extreme_returns", "short_history"})
           => OHLCV_panel_temp.type = "DataFrame"
    /\ err # "TypeError"

----------------------------------------------------------------------------
(* A single call of a stage of DSPreprocess, with the defaults of its       *)
(* signature, and a second call of the stage on the Panel it returned.     *)

CountryStages ==
    {"filter_non_common_stocks", "filter_cross_listings",
     "filter_foreign_currency_stocks", "filter_surivorship_bias", "handle_missings"}
StaticsStages ==
    {"filter_duplicate_loc_codes", "filter_countries_with_few_stocks",
     "filter_padded_values_delistings"}
PanelStages ==
    {"filter_implausible_returns", "filter_stale_prices", "filter_zero_return_stocks",
     "filter_stocks_by_high_volatility", "filter_stocks_by_low_volatility",
     "filter_short_history_stocks", "filter_outlier_errors", "filter_holidays",
     "filter_penny_stocks", "filter_implausible_prices", "filter_no_trading_activity",
     "filter_extreme_returns2", "filter_adjustment_inconsistencies"}

call_stage(c) ==
    CASE c.fn = "handle_missings" -> handle_missings(c.panel, c.statics, c.country)
      [] c.fn = "filter_non_common_stocks" ->
             filter_non_common_stocks(c.panel, c.statics, c.country)
      [] c.fn = "filter_cross_listings" ->
             filter_cross_listings(c.panel, c.statics, c.country)
      [] c.fn = "filter_foreign_currency_stocks" ->
             filter_foreign_currency_stocks(c.panel, c.statics, c.country)
      [] c.fn = "filter_surivorship_bias" ->
             filter_surivorship_bias(c.panel, c.statics, c.country)
      [] c.fn = "filter_duplicate_loc_codes" ->
             filter_duplicate_loc_codes(c.panel, c.statics)
      [] c.fn = "filter_countries_with_few_stocks" ->
             filter_countries_with_few_stocks(c.panel, c.statics,
                 IF "min_stocks" \in DOMAIN c THEN c.min_stocks ELSE 20)
      [] c.fn = "filter_padded_values_delistings" ->
             filter_padded_values_delistings(c.panel, c.statics)
      [] c.fn = "filter_implausible_returns" -> filter_implausible_returns(c.panel)
      [] c.fn = "filter_stale_prices" -> filter_stale_prices(c.panel)
      [] c.fn = "filter_zero_return_stocks" -> filter_zero_return_stocks(c.panel)
      [] c.fn = "filter_stocks_by_high_volatility" ->
             filter_stocks_by_high_volatility(c.panel, 40)
      [] c.fn = "filter_stocks_by_low_volatility" ->
             filter_stocks_by_low_volatility(c.panel)
      [] c.fn = "filter_short_history_stocks" ->
             filter_short_history_stocks(c.panel, 120)
      [] c.fn = "filter_outlier_errors" ->
             filter_outlier_errors(c.panel, 100, 0 - 50, c.method)
      [] c.fn = "filter_holidays" -> filter_holidays(c.panel, 5)
      [] c.fn = "filter_penny_stocks" -> filter_penny_stocks(c.panel, 1, 10)
      [] c.fn = "filter_implausible_prices" -> filter_implausible_prices(c.panel)
      [] c.fn = "filter_no_trading_activity" -> filter_no_trading_activity(c.panel)
      [] c.fn = "filter_extreme_returns2" ->
             filter_extreme_returns2(c.panel, IF "n_std" \in DOMAIN c THEN c.n_std ELSE 8)
      [] c.fn = "filter_adjustment_inconsistencies" ->
             filter_adjustment_inconsistencies(c.panel, 5)

\* The Panel in what a stage returns: the penny-stock stage returns a tuple,
\* the small-country stage a pair of tables.
returned_panel(fn, value) ==
    CASE fn = "filter_penny_stocks" -> value[1]
      [] fn = "filter_countries_with_few_stocks" -> value.panel
      [] OTHER -> value

StageCall(fn, panel, st, country) ==
    [fn |-> fn, panel |-> panel, statics |-> st, country |-> country, method |-> "drop"]

CallStage ==
    /\ driver = "none"
    /\ pc = "call"
    /\ outcome' = call_stage(call)
    /\ pc' = "returned"
    /\ UNCHANGED <<driver, OHLCV_panel, OHLCV_panel_temp, statics, final, err,
                   removed, call>>

\* The classification filters return rows of the Panel they were given, so
\* they can be given their own output.
ClassificationStages ==
    {"filter_non_common_stocks", "filter_cross_listings",
     "filter_implausible_prices", "filter_no_trading_activity"}

Reapply ==
    /\ driver = "none"
    /\ pc = "returned"
    /\ call.fn \in ClassificationStages
    /\ outcome.kind = "ok"
    /\ call' = [call EXCEPT !.panel = outcome.value]
    /\ outcome' = call_stage(call')
    /\ pc' = "reapplied"
    /\ UNCHANGED <<driver, OHLCV_panel, OHLCV_panel_temp, statics, final, err, removed>>

InitCall(calls) ==
    /\ driver = "none"
    /\ pc = "call"
    /\ OHLCV_panel = <<>>
    /\ OHLCV_panel_temp = Unbound
    /\ statics = <<>>
    /\ final = NoFinal
    /\ err = "none"
    /\ removed = {}
    /\ call \in calls
    /\ outcome = NoCall

(* Inputs of a single call *)

\* Stock 2's name carries a non-common-equity marker and its type is not an
\* ordinary share; stock 3's name carries a cross-listing marker.
StageStaticsTable ==
    <<StaticsRow(1, "UNITED STATES"),
      [StaticsRow(2, "UNITED STATES") EXCEPT !.ENAME = <<"A", "W", "R", "T", "S">>,
                                             !.TRAC = "WTS"],
      [StaticsRow(3, "UNITED STATES") EXCEPT !.ENAME = <<"A", "(", "N", "Y", "S", ")">>]>>

StageRow(k, d, high, volume) ==
    [Stock |-> k, Date |-> FirstDate + d - 1,
     Open |-> 10, High |-> high, Low |-> 10, Close |-> 10, Volume |-> volume,
     ReturnIndex |-> 4, UnadjClose |-> 10, AdjFactor |-> 1, MarketCAP |-> 4,
     Return |-> IF d = 1 THEN NaN ELSE 0]

\* Stock 1 trades on day 1 and shows the same High, Low and Volume on day 2;
\* stock 2's High lies below its Open; stock 3 has a plain day.
StagePanelTable ==
    <<StageRow(1, 1, 10, 1), StageRow(2, 1, 5, 1), StageRow(3, 1, 10, 1),
      StageRow(1, 2, 10, 1)>>

\* "ATLANTIS" is in no rule table; "FRANCE" is in all, with no Statics row here.
StageCountries == {"UNITED STATES", "FRANCE", "ATLANTIS"}

StageCalls ==
    {StageCall(fn, panel, st, country) :
        fn \in CountryStages, panel \in Selections(StagePanelTable),
        st \in Selections(StageStaticsTable), country \in StageCountries}
    \cup {StageCall(fn, panel, st, "") :
        fn \in StaticsStages, panel \in Selections(StagePanelTable),
        st \in Selections(StageStaticsTable)}
    \cup {StageCall(fn, panel, <<>>, "") :
        fn \in PanelStages, panel \in Selections(StagePanelTable)}

InitStage == InitCall(StageCalls)
NextStage == CallStage \/ Reapply
SpecStage == InitStage /\ [][NextStage]_vars

unknown_country_stages ==
    {"filter_non_common_stocks", "filter_cross_listings",
     "filter_foreign_currency_stocks", "filter_surivorship_bias"}

\* C5 (degenerate input): a stage given an empty Panel, and a country of its
\* rule table if it has one, returns an empty Panel and raises no error.
C5_EmptyPanelInEmptyPanelOut ==
    (/\ driver = "none"
     /\ pc = "returned"
     /\ call.panel = <<>>
     /\ call.fn \in unknown_country_stages => call.country \in RuleCountries) =>
        /\ outcome.kind = "ok"
        /\ returned_panel(call.fn, outcome.value) = <<>>

\* C6 (unknown country): each of the four stages with a rule table, called with
\* a country that is not a key of the table, raises an error that names the keys
\* of the table and returns nothing.
C6_UnknownCountryFails ==
    (/\ driver = "none"
     /\ pc = "returned"
     /\ call.fn \in unknown_country_stages
     /\ call.country \notin RuleCountries) =>
        /\ outcome.kind = "ValueError"
        /\ outcome.names = RuleCountries
        /\ "value" \notin DOMAIN outcome

C6_Witness ==
    /\ driver = "none"
    /\ pc = "returned"
    /\ call.fn = "filter_surivorship_bias"
    /\ call.country = "ATLANTIS"
    /\ call.panel # <<>>
    /\ call.statics # <<>>
    /\ outcome.kind = "ValueError"

\* C7 (idempotence): a classification filter applied to its own output, with
\* the same Statics and country, returns that output with no row removed.
C7_Idempotence ==
    (driver = "none" /\ pc = "reapplied") =>
        /\ outcome.kind = "ok"
        /\ Len(outcome.value) = Len(call.panel)

----------------------------------------------------------------------------
(* filter_stale_prices on series made of runs of identical ReturnIndex      *)

MaxRuns == 2
RunLengths == {1, 29, 30, 31, 35}
OtherStockDays == {0, 40}

\* The day (from 1) on which run j of a series starts.
RunStart(runs, j) == 1 + Sum(SubSeq(runs, 1, j - 1))

\* The ReturnIndex of the days of a series: run j holds the value 5, 4, 5, ...
RunValues(runs) ==
    Concat(AsTuple([j \in DOMAIN runs |-> AsTuple([p \in 1..runs[j] |-> 4 + (j % 2)])]))

SeriesRow(k, d, ri, ret) ==
    [Stock |-> k, Date |-> FirstDate + d - 1,
     Open |-> 10, High |-> 10, Low |-> 10, Close |-> 10, Volume |-> 1 + (d % 2),
     ReturnIndex |-> ri, UnadjClose |-> 10, AdjFactor |-> 1, MarketCAP |-> 4,
     Return |-> ret]

\* Stock 1 carries the runs; stock 2, when present, holds the value 5 on every
\* one of its days.  The rows come ordered by date or in the reverse order.
StalePanel(runs, other, order) ==
    LET v == RunValues(runs)
        rows == sort_values_Date_Stock(
                    AsTuple([d \in DOMAIN v |-> SeriesRow(1, d, v[d], NaN)])
                    \o AsTuple([d \in 1..other |-> SeriesRow(2, d, 5, NaN)]))
    IN IF order = "by date" THEN rows
       ELSE AsTuple([i \in DOMAIN rows |-> rows[Len(rows) + 1 - i]])

\* The calls on series of at most max_runs runs.
StaleCalls(max_runs) ==
    {StageCall("filter_stale_prices", StalePanel(runs, other, order), <<>>, "")
        @@ [runs |-> runs, other |-> other] :
        runs \in SeqsUpTo(RunLengths, max_runs) \ {<<>>},
        other \in OtherStockDays, order \in {"by date", "reversed"}}

InitStale == InitCall(StaleCalls(MaxRuns))
NextCall == CallStage
SpecStale == InitStale /\ [][NextCall]_vars

Least(a, b) == IF a < b THEN a ELSE b

\* C8 (run length): of every run of identical ReturnIndex values of a stock the
\* first 30 days are kept and the others dropped, whatever precedes the run and
\* whatever the other stock holds; a kept row is returned as it was given.
C8_StaleRunLength ==
    (driver = "none" /\ pc = "returned" /\ call.fn = "filter_stale_prices") =>
        /\ outcome.kind = "ok"
        /\ Keys(outcome.value) =
               {<<1, FirstDate + RunStart(call.runs, j) + p - 2>> :
                    <<j, p>> \in {<<i, q>> \in (DOMAIN call.runs) \X (1..30) :
                                     q <= call.runs[i]}}
               \cup {<<2, FirstDate + d - 1>> : d \in 1..Least(call.other, 30)}
        /\ Len(outcome.value) = Cardinality(Keys(outcome.value))
        /\ Range(outcome.value) \subseteq Range(call.panel)

\* A 35-day run after a 31-day run, beside the other stock: days 31 and 62-66
\* of stock 1 are gone, and days 31-40 of stock 2.
C8_Witness ==
    /\ driver = "none"
    /\ pc = "returned"
    /\ call.fn = "filter_stale_prices"
    /\ call.runs = <<31, 35>>
    /\ call.other = 40
    /\ outcome.kind = "ok"
    /\ Len(outcome.value) = 90
    /\ {d \in 1..66 : <<1, FirstDate + d - 1>> \notin Keys(outcome.value)}
           = {31} \cup (62..66)

----------------------------------------------------------------------------
(* filter_outlier_errors on a stock's series of Return values, in hundredths *)

OutlierLen == 4
ReturnValues == {20, 150, 0 - 60, 10, 100, 0 - 50, NaN}

\* Stock 1 carries the series, one value a day; stock 2 has one row, a fall on
\* day 1.  The rows come ordered by date or in the reverse order.
OutlierPanel(returns, order) ==
    LET rows == sort_values_Date_Stock(
                    AsTuple([d \in DOMAIN returns |-> SeriesRow(1, d, 4, returns[d])])
                    \o <<SeriesRow(2, 1, 4, 0 - 60)>>)
    IN IF order = "by date" THEN rows
       ELSE AsTuple([i \in DOMAIN rows |-> rows[Len(rows) + 1 - i]])

\* The calls on series of at most len days.
OutlierCalls(len) ==
    {[StageCall("filter_outlier_errors", OutlierPanel(returns, order), <<>>, "")
         EXCEPT !.method = method] @@ [returns |-> returns] :
        returns \in SeqsUpTo(ReturnValues, len) \ {<<>>},
        method \in {"drop", "zero"}, order \in {"by date", "reversed"}}

InitOutlier == InitCall(OutlierCalls(OutlierLen))
NextOutlier == CallStage
SpecOutlier == InitOutlier /\ [][NextOutlier]_vars

\* Day t is flagged: a rise above up_ts followed by a fall below down_ts, or a
\* fall followed by a rise.
Flagged(returns) ==
    {t \in DOMAIN returns :
        /\ t < Len(returns)
        /\ \/ (Gt(returns[t], 100) /\ Lt(returns[t + 1], 0 - 50))
           \/ (Lt(returns[t], 0 - 50) /\ Gt(returns[t + 1], 100))}

Hit(returns) == Flagged(returns) \cup {t + 1 : t \in Flagged(returns)}

\* C9 (reversal pairs): in "drop" mode exactly the flagged days of the stock and
\* their successors are removed, every other row returned as it was given; in
\* "zero" mode no row is removed and exactly those rows get Return = 0.
C9_ReversalPairs ==
    (driver = "none" /\ pc = "returned" /\ call.fn = "filter_outlier_errors") =>
        /\ outcome.kind = "ok"
        /\ Len(outcome.value) = Cardinality(Keys(outcome.value))
        /\ call.method = "drop" =>
               /\ Keys(outcome.value) =
                      {<<1, FirstDate + t - 1>> :
                           t \in (DOMAIN call.returns) \ Hit(call.returns)}
                      \cup {<<2, FirstDate>>}
               /\ Range(outcome.value) \subseteq Range(call.panel)
        /\ call.method = "zero" =>
               /\ Len(outcome.value) = Len(call.panel)
               /\ Range(outcome.value) =
                      {IF r.Stock = 1 /\ (r.Date - FirstDate + 1) \in Hit(call.returns)
                       THEN [r EXCEPT !.Return = 0] ELSE r : r \in Range(call.panel)}

\* The series 0.2, 1.5, -0.6, 0.1 in "drop" mode: the 2nd and 3rd rows are gone.
C9_Witness ==
    /\ driver = "none"
    /\ pc = "returned"
    /\ call.fn = "filter_outlier_errors"
    /\ call.method = "drop"
    /\ call.returns = <<20, 150, 0 - 60, 10>>
    /\ outcome.kind = "ok"
    /\ Keys(outcome.value) = {<<1, FirstDate>>, <<1, FirstDate + 3>>, <<2, FirstDate>>}

----------------------------------------------------------------------------
(* filter_penny_stocks on two months: each stock has one row in January 2000, *)
(* which holds its month-end unadjusted close, and some rows in February.    *)

NumPennyStocks == 3
JanuaryCloses == {10, 20, NaN}
FebruaryRows == {1, 10}

PennyRow(k, date, close) ==
    [Stock |-> k, Date |-> date,
     Open |-> 10, High |-> 10, Low |-> 10, Close |-> 10, Volume |-> 1,
     ReturnIndex |-> 4, UnadjClose |-> close, AdjFactor |-> 1, MarketCAP |-> 4,
     Return |-> 0]

PennyPanel(closes, rows) ==
    sort_values_Date_Stock(
        AsTuple([k \in DOMAIN closes |-> PennyRow(k, DateOf(2000, 1, 28), closes[k])])
        \o Concat(AsTuple([k \in DOMAIN rows |->
               AsTuple([d \in 1..rows[k] |-> PennyRow(k, DateOf(2000, 2, d), 10)])])))

\* The calls on n stocks.
PennyCalls(n) ==
    {StageCall("filter_penny_stocks", PennyPanel(closes, rows), <<>>, "")
        @@ [closes |-> closes, rows |-> rows] :
        closes \in [1..n -> JanuaryCloses], rows \in [1..n -> FebruaryRows]}

InitPenny == InitCall(PennyCalls(NumPennyStocks))
NextPenny == CallStage
SpecPenny == InitPenny /\ [][NextPenny]_vars

February == Month(DateOf(2000, 2, 1))

\* C10 (penny threshold): the threshold of February is the 10th percentile of
\* the January closes taken once per stock, whatever the stocks' numbers of rows
\* in February; a stock's February rows are dropped if and only if its January
\* close is strictly below that threshold, and never when that close is null.
C10_PennyThreshold ==
    (driver = "none" /\ pc = "returned" /\ call.fn = "filter_penny_stocks") =>
        /\ outcome.kind = "ok"
        /\ outcome.value[2][February] = QuantileTimes(call.closes, 1, 10)
        /\ \A k \in DOMAIN call.closes :
               LET kept == {r \in Range(outcome.value[1]) :
                               r.Stock = k /\ Month(r.Date) = February}
                   below == /\ notna(call.closes[k])
                            /\ 10 * call.closes[k] < QuantileTimes(call.closes, 1, 10)
               IN /\ below => kept = {}
                  /\ ~below => Cardinality(kept) = call.rows[k]

----------------------------------------------------------------------------
(* filter_holidays on two dates of a Panel of about 200 stocks, where one   *)
(* stock is 0.5% of the stocks                                             *)

HolidayStocks == 200
ActiveCounts == {0, 1, 2, 3}

\* On a date the stocks 1..active have the Return 0.10; of the others the even
\* ones have a null Return and the odd ones the Return 0.
HolidayRow(k, d, active) ==
    SeriesRow(k, d, 4, IF k <= active THEN 10 ELSE IF k % 2 = 0 THEN NaN ELSE 0)

HolidayPanel(n, active) ==
    AsTuple([k \in 1..n |-> HolidayRow(k, 1, active[1])])
    \o AsTuple([k \in 1..n |-> HolidayRow(k, 2, active[2])])

\* The calls on n - 1, n and n + 1 stocks.
HolidayCalls(n) ==
    UNION {{StageCall("filter_holidays", HolidayPanel(m, active), <<>>, "")
                @@ [stocks |-> m, active |-> active] :
                active \in [1..2 -> ActiveCounts \cup {m}]} :
           m \in (n - 1)..(n + 1)}

InitHoliday == InitCall(HolidayCalls(HolidayStocks))
NextHoliday == CallStage
SpecHoliday == InitHoliday /\ [][NextHoliday]_vars

\* C11 (holiday boundary): a date is kept if and only if its number of rows with
\* a non-null, non-zero Return, divided by the number of stocks of the Panel, is
\* at least 0.5%; a kept date keeps all its rows, as they were given.
C11_HolidayBoundary ==
    (driver = "none" /\ pc = "returned" /\ call.fn = "filter_holidays") =>
        /\ outcome.kind = "ok"
        /\ Keys(outcome.value) =
               {<<k, FirstDate + d - 1>> :
                    <<k, d>> \in {<<j, e>> \in (1..call.stocks) \X (1..2) :
                                     1000 * call.active[e] >= 5 * call.stocks}}
        /\ Len(outcome.value) = Cardinality(Keys(outcome.value))
        /\ Range(outcome.value) \subseteq Range(call.panel)

\* 200 stocks: the date with one active stock (exactly 0.5%) is kept whole, the
\* date with none is gone.
C11_Witness ==
    /\ driver = "none"
    /\ pc = "returned"
    /\ call.fn = "filter_holidays"
    /\ call.stocks = 200
    /\ call.active = <<1, 0>>
    /\ outcome.kind = "ok"
    /\ Len(outcome.value) = 200
    /\ Dates(outcome.value) = {FirstDate}

----------------------------------------------------------------------------
(* filter_short_history_stocks: stock 1 has one row, on the last day of the *)
(* Panel; stocks 2 and 3 have rows on consecutive days from a first day    *)
(* that lies a number of days before the last day.                         *)

LastDay == 201
HistoryRows == {5, 10, 119, 120}
HistoryGaps == {5, 119, 120, 200}
Histories == {h \in [rows : HistoryRows, gap : HistoryGaps] : h.rows <= h.gap + 1}

HistoryPanel(hs, last) ==
    <<SeriesRow(1, last, 4, 10)>>
    \o Concat(AsTuple([j \in DOMAIN hs |->
           AsTuple([i \in 1..hs[j].rows |->
               SeriesRow(j + 1, last - hs[j].gap + i - 1, 4, 10)])]))

HistoryCalls(last) ==
    {StageCall("filter_short_history_stocks", HistoryPanel(hs, last), <<>>, "")
        @@ [histories |-> hs] : hs \in [1..2 -> Histories]}

InitHistory == InitCall(HistoryCalls(LastDay))
NextHistory == CallStage
SpecHistory == InitHistory /\ [][NextHistory]_vars

\* C12 (short history): a stock keeps all its rows if it has at least 120 rows
\* or if its first row lies fewer than 120 days before the last day of the
\* Panel, and loses all its rows otherwise; a kept row is as it was given.
C12_ShortHistoryExemption ==
    (driver = "none" /\ pc = "returned" /\ call.fn = "filter_short_history_stocks") =>
        /\ outcome.kind = "ok"
        /\ outcome.value =
               SelectSeq(call.panel, LAMBDA r :
                   \/ r.Stock = 1
                   \/ call.histories[r.Stock - 1].rows >= 120
                   \/ call.histories[r.Stock - 1].gap < 120)

\* A 5-row stock first seen 5 days before the last day is kept, a 10-row stock
\* first seen 200 days before it is dropped.
C12_Witness ==
    /\ driver = "none"
    /\ pc = "returned"
    /\ call.fn = "filter_short_history_stocks"
    /\ call.histories = <<[rows |-> 5, gap |-> 5], [rows |-> 10, gap |-> 200]>>
    /\ outcome.kind = "ok"
    /\ Len(outcome.value) = 6
    /\ Stocks(outcome.value) = {1, 2}

----------------------------------------------------------------------------
\* C13 (schema preservation): the rows of the Panel a filter stage returns
\* have exactly the columns of the rows of the Panel it was given.
C13_SchemaPreserved ==
    (driver = "none" /\ pc = "returned" /\ outcome.kind = "ok") =>
        \A r \in Range(returned_panel(call.fn, outcome.value)) :
            \A q \in Range(call.panel) : DOMAIN r = DOMAIN q

----------------------------------------------------------------------------
(* filter_non_common_stocks: two stocks with one row each; the Statics     *)
(* give each a name and a security type.                                   *)

NameTexts ==
    {PlainName,
     <<"A">> \o Text_WRTS,
     <<"A", "w", "r", "t", "s">>,
     <<"A">> \o Text_NV \o <<"B">>,
     <<"A">> \o Text_DEB,
     <<"A">> \o Text_EXCH}

NameTypes == {"ORD", "UNKNOW", "WTS"}
NameCountries == {"UNITED STATES", "FRANCE"}

NameStatics(names, types) ==
    AsTuple([k \in DOMAIN names |->
        [StaticsRow(k, "UNITED STATES") EXCEPT !.ENAME = names[k], !.TRAC = types[k]]])

NameCalls ==
    {StageCall("filter_non_common_stocks",
               <<SeriesRow(1, 1, 4, 10), SeriesRow(2, 1, 4, 10)>>,
               NameStatics(names, types), country) :
        names \in [1..2 -> NameTexts], types \in [1..2 -> NameTypes],
        country \in NameCountries}

InitNames == InitCall(NameCalls)
NextNames == CallStage
SpecNames == InitNames /\ [][NextNames]_vars

\* The name holds, letter for letter, one of the patterns of the country.
HasPattern(name, country) ==
    \E i \in DOMAIN equity_identifers[country] :
        IsSubstring(equity_identifers[country][i], name)

\* C14 (non-common stocks): the rows of a security are removed exactly when
\* its name holds one of the country's patterns, whatever characters the
\* pattern is made of, and its security type is not one of the accepted types.
C14_NonCommonRule ==
    (driver = "none" /\ pc = "returned" /\ call.fn = "filter_non_common_stocks") =>
        /\ outcome.kind = "ok"
        /\ outcome.value =
               SelectSeq(call.panel, LAMBDA r :
                   ~ /\ HasPattern(call.statics[r.Stock].ENAME, call.country)
                     /\ call.statics[r.Stock].TRAC \notin TRAC_accepted)

----------------------------------------------------------------------------
(* filter_adjustment_inconsistencies: a plain row of stock 1 and a row of  *)
(* stock 2 whose Close, AdjFactor and UnadjClose vary.                     *)

AdjustCloses == {0, 10, 20, NaN}
AdjustFactors == {0, 1, NaN}
AdjustUnadjCloses == {0, 10, 20, 21, 22, NaN}

AdjustCalls ==
    {StageCall("filter_adjustment_inconsistencies",
               <<SeriesRow(1, 1, 4, 10),
                 [SeriesRow(2, 1, 4, 10) EXCEPT !.Close = c, !.AdjFactor = a,
                                                !.UnadjClose = u]>>,
               <<>>, "") :
        c \in AdjustCloses, a \in AdjustFactors, u \in AdjustUnadjCloses}

InitAdjust == InitCall(AdjustCalls)
NextAdjust == CallStage
SpecAdjust == InitAdjust /\ [][NextAdjust]_vars

\* the ratio is defined and exceeds 5 hundredths
ExceedsThreshold(r) ==
    /\ notna(r.Close) /\ notna(r.AdjFactor) /\ notna(r.UnadjClose)
    /\ r.Close * r.AdjFactor > 0
    /\ 100 * Abs(r.UnadjClose - r.Close * r.AdjFactor) > 5 * r.Close * r.AdjFactor

\* C15 (adjustment inconsistency): a row is dropped exactly when the relative
\* difference of UnadjClose from Close * AdjFactor is defined and exceeds the
\* threshold; a row whose Close * AdjFactor is zero, or one of whose inputs is
\* null, is kept whatever its UnadjClose.
C15_AdjustmentRule ==
    (driver = "none" /\ pc = "returned" /\ call.fn = "filter_adjustment_inconsistencies") =>
        /\ outcome.kind = "ok"
        /\ outcome.value = SelectSeq(call.panel, LAMBDA r : ~ExceedsThreshold(r))

----------------------------------------------------------------------------
(* filter_extreme_returns2: three stocks on one date, with the default     *)
(* n_std and with n_std = 1.                                               *)

BandReturns == {NaN, 0, 10, 100}
BandWidths == {1, 8}

ExtremeCalls ==
    {StageCall("filter_extreme_returns2",
               AsTuple([k \in 1..3 |-> SeriesRow(k, 1, 4, rets[k])]), <<>>, "")
        @@ [n_std |-> n, returns |-> rets] :
        rets \in [1..3 -> BandReturns], n \in BandWidths}

InitExtreme == InitCall(ExtremeCalls)
NextExtreme == CallStage
SpecExtreme == InitExtreme /\ [][NextExtreme]_vars

\* the return lies more than n standard deviations from the median of xs
BeyondBand(ret, xs, n) ==
    LET x == dropna(xs)
        dev == 2 * ret - Median2(x)
    IN /\ notna(ret)
       /\ Len(x) >= 2
       /\ dev * dev * Len(x) * (Len(x) - 1) > 4 * n * n * VarTimes(x)

\* C16 (extreme returns): a row is dropped exactly when its Return is not null
\* and lies more than n_std standard deviations of its date from the median of
\* its date; a row with a null Return is kept, and no row is dropped on a date
\* with fewer than two non-null returns.
C16_ExtremeReturnRule ==
    (driver = "none" /\ pc = "returned" /\ call.fn = "filter_extreme_returns2"
        /\ "returns" \in DOMAIN call) =>
        /\ outcome.kind = "ok"
        /\ outcome.value =
               SelectSeq(call.panel, LAMBDA r :
                   ~BeyondBand(r.Return, call.returns, call.n_std))

----------------------------------------------------------------------------
numeric_columns ==
    {"Open", "High", "Low", "Close", "Volume", "ReturnIndex", "UnadjClose",
     "AdjFactor", "MarketCAP", "Return"}

\* C17 (final cleanup): the final Panel of a driver has no row with a null
\* Return and no infinite value in a numeric column, and the final Statics
\* hold only securities whose DSCD is a Stock of the final Panel.
C17_FinalCleanup ==
    pc = "done" =>
        /\ \A r \in Range(final.panel) :
               /\ notna(r.Return)
               /\ \A col \in numeric_columns \cap DOMAIN r : r[col] \notin {Inf, NegInf}
        /\ DSCDs(final.statics) \subseteq Stocks(final.panel)

\* A run that ends with the stock-day whose market value was infinite in the
\* final Panel, where it has the market value of the day before, and with its
\* security in the final Statics.
C17_Witness ==
    /\ pc = "done"
    /\ \E r \in Range(final.panel) :
           r.Stock = 2 /\ r.Date = FirstDate + 2 /\ r.MarketCAP = 8
    /\ 2 \in DSCDs(final.statics)

----------------------------------------------------------------------------
(* The first two statements of a driver on files of two stocks and three   *)
(* days, stock 1's rows before stock 2's, with any return index values.    *)

ReturnIndexValues == {NaN, 0, 4, 5}
ReturnIndexDays == 1..3

ReturnIndexPanels ==
    {Concat(AsTuple([k \in 1..2 |-> AsTuple([i \in ReturnIndexDays |->
         [RawRow(k, i, 0) EXCEPT !.ReturnIndex = ri[k][i]]])])) :
        ri \in [1..2 -> [ReturnIndexDays -> ReturnIndexValues]]}

InitReturn ==
    /\ driver \in {"US", "EU"}
    /\ pc = "sort_dedup"
    /\ OHLCV_panel \in ReturnIndexPanels
    /\ OHLCV_panel_temp = Unbound
    /\ statics = <<>>
    /\ final = NoFinal
    /\ err = "none"
    /\ removed = {}
    /\ call = NoCall
    /\ outcome = NoCall

NextReturn == SortAndDeduplicate \/ ComputeReturn
SpecReturn == InitReturn /\ [][NextReturn]_vars

\* the return index is there and not below 1e-6
Usable(ri) == notna(ri) /\ ri >= 1

\* C18 (Return derivation): the statement that derives Return leaves the first
\* row of every stock, in date order, with a null Return, and gives every later
\* row ReturnIndex / ReturnIndex of the same stock's previous row - 1 (in
\* hundredths, rounded down), null when either return index is null or below
\* 1e-6; return index values below 1e-6 are nulled.
C18_ReturnDerivation ==
    [][(pc = "returns" /\ pc' = "restrict") =>
        /\ Len(OHLCV_panel') = Len(OHLCV_panel)
        /\ \A i \in DOMAIN OHLCV_panel :
               LET row == OHLCV_panel[i]
                   own == {j \in 1..(i - 1) : OHLCV_panel[j].Stock = row.Stock}
                   ret == OHLCV_panel'[i].Return
               IN /\ \A j \in own : OHLCV_panel[j].Date < row.Date
                  /\ OHLCV_panel'[i].Stock = row.Stock
                  /\ OHLCV_panel'[i].Date = row.Date
                  /\ OHLCV_panel'[i].ReturnIndex =
                         (IF Usable(row.ReturnIndex) THEN row.ReturnIndex ELSE NaN)
                  /\ IF own = {} THEN isna(ret)
                     ELSE LET prev == OHLCV_panel[SetMax(own)].ReturnIndex
                          IN IF Usable(row.ReturnIndex) /\ Usable(prev)
                             THEN /\ notna(ret)
                                  /\ (ret + 100) * prev <= 100 * row.ReturnIndex
                                  /\ 100 * row.ReturnIndex < (ret + 101) * prev
                             ELSE isna(ret)]_vars

\* Stock 2's second row has a Return of 25 hundredths from its own first row,
\* not from stock 1's rows, whose return index is null or zero; stock 1's rows
\* have a null Return.
C18_Witness ==
    /\ pc = "restrict"
    /\ Len(OHLCV_panel) = 6
    /\ \E i \in DOMAIN OHLCV_panel :
           /\ OHLCV_panel[i].Stock = 2
           /\ OHLCV_panel[i].Date = FirstDate + 1
           /\ OHLCV_panel[i].Return = 25
    /\ \A i \in DOMAIN OHLCV_panel :
           OHLCV_panel[i].Stock = 1 =>
               isna(OHLCV_panel[i].Return) /\ isna(OHLCV_panel[i].ReturnIndex)
    /\ "Return" \in DOMAIN OHLCV_panel[1]

----------------------------------------------------------------------------
UniqueKeys(df) == Cardinality(Keys(df)) = Len(df)

\* C19 (key uniqueness): once the duplicate stock-days have been dropped, the
\* Panel a driver holds after every later stage has at most one row for a
\* Stock and a Date.
C19_KeyUniqueness ==
    (driver \in {"US", "EU"} /\ pc # "sort_dedup") =>
        /\ UniqueKeys(OHLCV_panel)
        /\ OHLCV_panel_temp.type = "DataFrame" => UniqueKeys(OHLCV_panel_temp.df)
        /\ UniqueKeys(final.panel)

----------------------------------------------------------------------------
(* filter_padded_values_delistings: four days of stock 1, whose returns and *)
(* delisting date vary, and of stock 2, which has no delisting date; the   *)
(* Statics hold a second row of stock 1 with another delisting date.       *)

DelistingDays == 1..4
PaddedReturns == {NaN, 0, 10}
DelistingDates == {NaN, FirstDate - 1, FirstDate + 1, FirstDate + 3}

PaddedPanel(rets) ==
    Concat(AsTuple([d \in DelistingDays |->
        <<SeriesRow(1, d, 4, rets[d]), SeriesRow(2, d, 4, IF d = 2 THEN 10 ELSE 0)>>]))

PaddedStatics(delisted) ==
    <<[StaticsRow(1, "UNITED STATES") EXCEPT !.Delisting_Date = delisted],
      StaticsRow(2, "UNITED STATES"),
      [StaticsRow(1, "UNITED STATES") EXCEPT !.Delisting_Date = FirstDate]>>

PaddedCalls ==
    {StageCall("filter_padded_values_delistings", PaddedPanel(rets),
               PaddedStatics(delisted), "")
        @@ [delisted |-> delisted] :
        rets \in [DelistingDays -> PaddedReturns], delisted \in DelistingDates}

InitPadded == InitCall(PaddedCalls)
NextPadded == CallStage
SpecPadded == InitPadded /\ [][NextPadded]_vars

\* the values of a row in the given columns
Project(r, cols) == [c \in cols |-> r[c]]

\* the row has a Return that ends the backward scan
EndsScan(r) == notna(r.Return) /\ r.Return # 0

----------------------------------------------------------------------------
(* handle_missings for FRANCE: three days of stocks 1 and 2, of France,    *)
(* with nulls in Close, ReturnIndex and MarketCAP, and one day of stock 3, *)
(* of Germany; the rows are in the order of the drivers, by date and stock. *)

MissingDays == 1..3
MissingCloses == {10, NaN}
MissingCaps == {4, NaN}

MissingStatics ==
    <<StaticsRow(1, "FRANCE"), StaticsRow(2, "FRANCE"), StaticsRow(3, "GERMANY")>>

MissingRow(k, d, close, ri, cap) ==
    [SeriesRow(k, d, ri, 10) EXCEPT !.Close = close, !.MarketCAP = cap]

MissingPanel(close1, ri1, cap1, close2, cap2) ==
    Concat(AsTuple([d \in MissingDays |->
        <<MissingRow(1, d, close1[d], IF d = 2 THEN ri1 ELSE 4, cap1[d]),
          MissingRow(2, d, IF d = 1 THEN close2 ELSE 10, 4, cap2)>>
        \o (IF d = 1 THEN <<MissingRow(3, d, 10, 4, 4)>> ELSE <<>>)]))

MissingCalls ==
    {StageCall("handle_missings", MissingPanel(close1, ri1, cap1, close2, cap2),
               MissingStatics, "FRANCE") :
        close1 \in [MissingDays -> MissingCloses], ri1 \in {4, NaN},
        cap1 \in [MissingDays -> MissingCaps \cup {Inf}],
        close2 \in MissingCloses, cap2 \in {6, NaN}}

InitMissing == InitCall(MissingCalls)
NextMissing == CallStage
SpecMissing == InitMissing /\ [][NextMissing]_vars

\* every model-critical column of the row has a value
Complete(r) == \A c \in ffill_cols : notna(r[c])

\* the market value of the row is null or infinite
NoCap(r) == r.MarketCAP \in {NaN, Inf, NegInf}

\* C21 (missing data): of a stock of the country, handle_missings returns
\* exactly the rows dated from its first complete row on, and none of a stock
\* without a complete row; every returned row is complete; and a returned
\* row has a null MarketCAP only on a date on which every returned stock has
\* a null MarketCAP, having had none in any of its returned rows.
C21_MissingData ==
    (driver = "none" /\ pc = "returned" /\ call.fn = "handle_missings"
        /\ call.statics = MissingStatics) =>
        LET given == {r \in Range(call.panel) : r.Stock \in {1, 2}}
            kept == {r \in given :
                        \E q \in given :
                            q.Stock = r.Stock /\ Complete(q) /\ q.Date <= r.Date}
        IN /\ outcome.kind = "ok"
           /\ Keys(outcome.value) = {<<r.Stock, r.Date>> : r \in kept}
           /\ Len(outcome.value) = Cardinality(kept)
           /\ \A r \in Range(outcome.value) :
                  /\ Complete(r)
                  /\ r.MarketCAP \notin {Inf, NegInf}
                  /\ isna(r.MarketCAP) =>
                         /\ \A q \in Range(outcome.value) :
                                q.Date = r.Date => isna(q.MarketCAP)
                         /\ \A q \in kept :
                                (\E o \in kept : o.Stock = q.Stock /\ o.Date = r.Date)
                                    => NoCap(q)

\* Stock 1 has its first complete row on the third day and no market value;
\* stock 2 has none either: the third day is returned with a null MarketCAP.
C21_Witness ==
    /\ driver = "none"
    /\ pc = "returned"
    /\ call.fn = "handle_missings"
    /\ call.statics = MissingStatics
    /\ outcome.kind = "ok"
    /\ Keys(outcome.value) =
           {<<1, FirstDate + 2>>, <<2, FirstDate>>, <<2, FirstDate + 1>>, <<2, FirstDate + 2>>}
    /\ \A r \in Range(outcome.value) : isna(r.MarketCAP)
    /\ \E r \in Range(call.panel) : r.Stock = 1 /\ r.Date = FirstDate + 1 /\ isna(r.ReturnIndex)

----------------------------------------------------------------------------
(* filter_implausible_prices: a plain row of stock 1 and a row of stock 2  *)
(* whose four prices vary.                                                 *)

PriceValues == {NaN, 5, 10}

PriceCalls ==
    {StageCall("filter_implausible_prices",
               <<SeriesRow(1, 1, 4, 10),
                 [SeriesRow(2, 1, 4, 10) EXCEPT !.Open = o, !.High = h, !.Low = l,
                                                !.Close = c]>>,
               <<>>, "") :
        o \in PriceValues, h \in PriceValues, l \in PriceValues, c \in PriceValues}

InitPrices == InitCall(PriceCalls)
NextPrices == CallStage
SpecPrices == InitPrices /\ [][NextPrices]_vars

\* High lies below one of the other prices, or Low above one of them
Implausible(r) ==
    \/ notna(r.High) /\ \E x \in {r.Open, r.Close, r.Low} : notna(x) /\ r.High < x
    \/ notna(r.Low) /\ \E x \in {r.Open, r.Close, r.High} : notna(x) /\ r.Low > x

\* C22 (implausible prices): a row is dropped exactly when its High is not null
\* and below the largest of the non-null Open, Close and Low, or its Low is
\* not null and above the smallest of the non-null Open, Close and High; a
\* row whose three other prices are all null is not dropped.
C22_ImplausiblePrices ==
    (driver = "none" /\ pc = "returned" /\ call.fn = "filter_implausible_prices") =>
        /\ outcome.kind = "ok"
        /\ outcome.value = SelectSeq(call.panel, LAMBDA r : ~Implausible(r))

----------------------------------------------------------------------------
(* filter_duplicate_loc_codes: two stocks with one row each and three      *)
(* Statics rows, of stock 1, of stock 2 and of either, whose local codes   *)
(* and listing markers vary.                                               *)

LocCodes == {1, 2}
ListingMarkers == {"P", "S"}

LocStatics(dscd3, loc, isinid) ==
    AsTuple([i \in 1..3 |->
        [StaticsRow(IF i = 3 THEN dscd3 ELSE i, "UNITED STATES")
            EXCEPT !.LOC = loc[i], !.ISINID = isinid[i]]])

LocCalls ==
    {StageCall("filter_duplicate_loc_codes",
               <<SeriesRow(1, 1, 4, 10), SeriesRow(2, 1, 4, 10)>>,
               LocStatics(dscd3, loc, isinid), "") :
        dscd3 \in {1, 2}, loc \in [1..3 -> LocCodes], isinid \in [1..3 -> ListingMarkers]}

InitLoc == InitCall(LocCalls)
NextLoc == CallStage
SpecLoc == InitLoc /\ [][NextLoc]_vars

\* the Statics row is one of several of its local code, one of them marked
\* "P", and is not marked "P" itself
LosesListing(st, i) ==
    /\ \E j \in DOMAIN st : j # i /\ st[j].LOC = st[i].LOC
    /\ \E j \in DOMAIN st : st[j].LOC = st[i].LOC /\ st[j].ISINID = "P"
    /\ st[i].ISINID # "P"

\* C23 (duplicate local codes): the Panel rows of a security are returned
\* exactly when one of its Statics rows is kept, and a Statics row is kept
\* unless its local code has several rows, one of them marked "P", and the
\* row itself is not marked "P".
C23_DuplicateLocRule ==
    (driver = "none" /\ pc = "returned" /\ call.fn = "filter_duplicate_loc_codes"
        /\ Len(call.statics) = 3) =>
        /\ outcome.kind = "ok"
        /\ outcome.value =
               SelectSeq(call.panel, LAMBDA r :
                   \E i \in DOMAIN call.statics :
                       call.statics[i].DSCD = r.Stock /\ ~LosesListing(call.statics, i))

\* Stocks 1 and 2 share a local code and stock 1 is the primary listing:
\* stock 2 loses its row, although it has a second Statics row, which shares
\* the code too.
C23_Witness ==
    /\ driver = "none"
    /\ pc = "returned"
    /\ call.fn = "filter_duplicate_loc_codes"
    /\ Len(call.statics) = 3
    /\ Column(call.statics, "DSCD") = <<1, 2, 2>>
    /\ Column(call.statics, "LOC") = <<1, 1, 1>>
    /\ Column(call.statics, "ISINID") = <<"P", "S", "S">>
    /\ outcome.kind = "ok"
    /\ Stocks(outcome.value) = {1}

----------------------------------------------------------------------------
(* filter_countries_with_few_stocks: France has the stocks 1, 2, ... in the *)
(* Panel, Germany the stocks 101, 102, ...; stock 1 may be listed under    *)
(* Germany as well, and the Statics may hold French securities 22 to 25,   *)
(* which have no row in the Panel.                                         *)

FrenchCounts == 18..21
GermanCounts == {0, 1, 2, 19, 20}
Minimums == {2, 20}

CountryPanel(n1, n2) ==
    AsTuple([k \in 1..n1 |-> SeriesRow(k, 1, 4, 10)])
    \o AsTuple([k \in 1..n2 |-> SeriesRow(100 + k, 1, 4, 10)])

CountryStatics(n1, n2, shared, extra) ==
    AsTuple([k \in 1..n1 |-> StaticsRow(k, "FRANCE")])
    \o AsTuple([k \in 1..n2 |-> StaticsRow(100 + k, "GERMANY")])
    \o (IF shared THEN <<StaticsRow(1, "GERMANY")>> ELSE <<>>)
    \o (IF extra THEN AsTuple([k \in 1..4 |-> StaticsRow(21 + k, "FRANCE")]) ELSE <<>>)

CountryCalls ==
    {StageCall("filter_countries_with_few_stocks", CountryPanel(n1, n2),
               CountryStatics(n1, n2, shared, extra), "")
        @@ [min_stocks |-> m, french |-> n1,
            german |-> n2 + (IF shared THEN 1 ELSE 0)] :
        n1 \in FrenchCounts, n2 \in GermanCounts, shared \in BOOLEAN,
        extra \in BOOLEAN, m \in Minimums}

InitCountry == InitCall(CountryCalls)
NextCountry == CallStage
SpecCountry == InitCountry /\ [][NextCountry]_vars

\* C24 (small countries): the returned Statics are exactly the rows of the
\* countries with at least min_stocks distinct stocks in the given Panel, and
\* the returned Panel is exactly the given rows whose Stock is a DSCD of the
\* returned Statics; every country of the returned Statics has at least
\* min_stocks distinct stocks in the returned Panel.
C24_SmallCountryRule ==
    (driver = "none" /\ pc = "returned" /\ call.fn = "filter_countries_with_few_stocks"
        /\ "french" \in DOMAIN call) =>
        LET valid == {c \in {"FRANCE", "GERMANY"} :
                         (IF c = "FRANCE" THEN call.french ELSE call.german)
                             >= call.min_stocks}
            returned == outcome.value
        IN /\ outcome.kind = "ok"
           /\ returned.statics = SelectSeq(call.statics, LAMBDA s : s.GEOGN \in valid)
           /\ returned.panel =
                  SelectSeq(call.panel, LAMBDA r : r.Stock \in DSCDs(returned.statics))
           /\ \A c \in Range(Countries(returned.statics)) :
                  Cardinality(Stocks(returned.panel)
                                  \cap CountryDSCDs(returned.statics, c)) >= call.min_stocks

\* With a minimum of 20, France has exactly 20 stocks and stays, Germany has
\* 19 and goes.
C24_Witness ==
    /\ driver = "none"
    /\ pc = "returned"
    /\ call.fn = "filter_countries_with_few_stocks"
    /\ "french" \in DOMAIN call
    /\ call.min_stocks = 20
    /\ call.french = 20
    /\ call.german = 19
    /\ outcome.kind = "ok"
    /\ Len(outcome.value.panel) = 20
    /\ Range(Countries(outcome.value.statics)) = {"FRANCE"}

----------------------------------------------------------------------------
(* filter_penny_stocks over three months: every stock has a row at the end *)
(* of January and one in March; in February it has a row or none.          *)

GapStocks == 1..3
GapCloses == {1, 10, 20}

GapPanel(closes, feb) ==
    sort_values_Date_Stock(
        Concat(AsTuple([k \in GapStocks |->
            <<PennyRow(k, DateOf(2000, 1, 28), closes[k])>>
            \o (IF feb[k] THEN <<PennyRow(k, DateOf(2000, 2, 15), 10)>> ELSE <<>>)
            \o <<PennyRow(k, DateOf(2000, 3, 15), 10)>>])))

GapCalls ==
    {StageCall("filter_penny_stocks", GapPanel(closes, feb), <<>>, "")
        @@ [january |-> closes, february |-> feb] :
        closes \in [GapStocks -> GapCloses], feb \in [GapStocks -> BOOLEAN]}

InitGap == InitCall(GapCalls)
NextGap == CallStage
SpecGap == InitGap /\ [][NextGap]_vars

\* the stock's UnadjClose on its last day of the calendar month before the
\* month of the date, null when it has no row in that month
PreviousMonthClose(panel, k, date) ==
    LET rows == {r \in Range(panel) : r.Stock = k /\ Month(r.Date) = Month(date) - 1}
    IN IF rows = {} THEN NaN
       ELSE (CHOOSE r \in rows : \A q \in rows : q.Date <= r.Date).UnadjClose

\* C25 (previous-month reference): a returned row carries, as the value that
\* was compared, its stock's close on the last day of the calendar month
\* before; a row of a stock with no row in the calendar month before is
\* returned.
C25_PreviousMonthReference ==
    (driver = "none" /\ pc = "returned" /\ call.fn = "filter_penny_stocks"
        /\ "february" \in DOMAIN call) =>
        /\ outcome.kind = "ok"
        /\ \A r \in Range(outcome.value[1]) :
               r.prev_UnadjClose = PreviousMonthClose(call.panel, r.Stock, r.Date)
        /\ \A r \in Range(call.panel) :
               isna(PreviousMonthClose(call.panel, r.Stock, r.Date))
                   => <<r.Stock, r.Date>> \in Keys(outcome.value[1])

----------------------------------------------------------------------------
\* the statements of a driver whose result depends on the order of the rows
order_dependent == {"returns", "padded", "stale", "outlier", "no_trading", "handle_missings"}

\* the rows of every stock come in strictly increasing date order
DateOrdered(df) ==
    \A i \in DOMAIN df : \A j \in 1..(i - 1) :
        df[j].Stock = df[i].Stock => df[j].Date < df[i].Date

\* C26 (working order): when a driver is about to run an order-dependent
\* statement, the rows of every stock of its Panel are in strictly increasing
\* date order.
C26_WorkingOrder ==
    (driver \in {"US", "EU"} /\ pc \in order_dependent) => DateOrdered(OHLCV_panel)

----------------------------------------------------------------------------
(* filter_no_trading_activity: four days of stock 1, whose High and Volume *)
(* vary and whose Low varies on the last day, and of stock 2, whose rows   *)
(* are all alike; the rows are in the order of the drivers.                *)

TradingDays == 1..4
TradingHighs == {10, 11, NaN}
TradingVolumes == {1, NaN}
TradingLows == {10, NaN}

TradingPanel(high, volume, low) ==
    Concat(AsTuple([d \in TradingDays |->
        <<[SeriesRow(1, d, 4, 10) EXCEPT !.High = high[d], !.Volume = volume[d],
                                         !.Low = IF d = 4 THEN low ELSE 10],
          [SeriesRow(2, d, 4, 10) EXCEPT !.Volume = 1]>>]))

TradingCalls ==
    {StageCall("filter_no_trading_activity", TradingPanel(high, volume, low), <<>>, "")
        @@ [high |-> high] :
        high \in [TradingDays -> TradingHighs],
        volume \in [TradingDays -> TradingVolumes], low \in TradingLows}

InitTrading == InitCall(TradingCalls)
NextTrading == CallStage
SpecTrading == InitTrading /\ [][NextTrading]_vars

\* the row has the High, the Low and the Volume of the row of its stock one
\* day before, none of them null
Untraded(panel, r) ==
    \E q \in Range(panel) :
        /\ q.Stock = r.Stock
        /\ q.Date = r.Date - 1
        /\ \A c \in {"High", "Low", "Volume"} : notna(r[c]) /\ notna(q[c]) /\ r[c] = q[c]

\* C27 (no trading activity): a row is dropped exactly when it is not the
\* first row of its stock and its High, Low and Volume are not null and equal
\* those of the row of its stock just before it in the given Panel; the
\* first row of a stock and a row with a null High, Low or Volume are kept.
C27_NoTradingRule ==
    (driver = "none" /\ pc = "returned" /\ call.fn = "filter_no_trading_activity"
        /\ "high" \in DOMAIN call) =>
        /\ outcome.kind = "ok"
        /\ Range(outcome.value) = {r \in Range(call.panel) : ~Untraded(call.panel, r)}
        /\ Len(outcome.value) = Cardinality(Range(outcome.value))

\* Stock 1 has the same values on its first three days and a null High on
\* the fourth: the first and the fourth day are returned, and of stock 2 the
\* first day only.
C27_Witness ==
    /\ driver = "none"
    /\ pc = "returned"
    /\ call.fn = "filter_no_trading_activity"
    /\ "high" \in DOMAIN call
    /\ call.high = <<10, 10, 10, NaN>>
    /\ outcome.kind = "ok"
    /\ Keys(outcome.value) = {<<1, FirstDate>>, <<1, FirstDate + 3>>, <<2, FirstDate>>}

----------------------------------------------------------------------------
(* A stage applied to the Panel it returned.                               *)

ApplyAgain ==
    /\ driver = "none"
    /\ pc = "returned"
    /\ outcome.kind = "ok"
    /\ call' = [fn |-> call.fn, panel |-> outcome.value, statics |-> call.statics,
                country |-> call.country, method |-> call.method,
                given |-> call.panel]
    /\ outcome' = call_stage(call')
    /\ pc' = "again"
    /\ UNCHANGED <<driver, OHLCV_panel, OHLCV_panel_temp, statics, final, err, removed>>

(* filter_stale_prices, twice, on a stock whose ReturnIndex holds up to     *)
(* three runs of a value or of nulls, each of another value than the one   *)
(* before it.                                                              *)

RunKinds == [value : {4, 5, NaN}, days : {1, 30, 31}]

RunSeries(runs) ==
    Concat(AsTuple([j \in DOMAIN runs |->
        AsTuple([p \in 1..runs[j].days |-> runs[j].value])]))

RunPanel(runs) ==
    LET v == RunSeries(runs)
    IN AsTuple([d \in DOMAIN v |-> SeriesRow(1, d, v[d], NaN)])

RunCalls ==
    {StageCall("filter_stale_prices", RunPanel(runs), <<>>, "") :
        runs \in {r \in SeqsUpTo(RunKinds, 3) \ {<<>>} :
                     \A j \in 2..Len(r) : r[j].value # r[j - 1].value}}

InitRuns == InitCall(RunCalls)
NextRuns == CallStage \/ ApplyAgain
SpecRuns == InitRuns /\ [][NextRuns]_vars

\* more than 30 rows, one after the other, hold the same non-null ReturnIndex
HasStaleRun(df) ==
    \E i \in DOMAIN df :
        /\ i + 30 \in DOMAIN df
        /\ notna(df[i].ReturnIndex)
        /\ \A j \in i..(i + 30) : df[j].ReturnIndex = df[i].ReturnIndex

\* C28 (stale prices, postcondition): the Panel filter_stale_prices returns
\* has no more than 30 rows of a stock in a row with the same non-null
\* ReturnIndex, and filter_stale_prices applied to it returns it whole.
C28_StalePostcondition ==
    /\ (driver = "none" /\ pc = "returned" /\ call.fn = "filter_stale_prices") =>
           outcome.kind = "ok" /\ ~HasStaleRun(outcome.value)
    /\ (driver = "none" /\ pc = "again" /\ call.fn = "filter_stale_prices") =>
           outcome.kind = "ok" /\ outcome.value = call.panel

\* The first application removed rows of a run and the second was made.
C28_Witness ==
    /\ driver = "none"
    /\ pc = "again"
    /\ call.fn = "filter_stale_prices"
    /\ HasStaleRun(call.given)
    /\ Len(call.panel) = 61
    /\ Len(call.given) = 63
    /\ outcome.kind = "ok"

----------------------------------------------------------------------------
(* filter_outlier_errors, twice, on the series of SpecOutlier.             *)

NextReversal == CallStage \/ ApplyAgain
SpecReversal == InitOutlier /\ [][NextReversal]_vars

\* two rows of a stock, with no row of the stock between them, hold a rise
\* above 100 and a fall below -50, in either order
HasReversal(df) ==
    \E r \in Range(df) : \E q \in Range(df) :
        /\ q.Stock = r.Stock
        /\ r.Date < q.Date
        /\ ~\E o \in Range(df) : o.Stock = r.Stock /\ r.Date < o.Date /\ o.Date < q.Date
        /\ \/ Gt(r.Return, 100) /\ Lt(q.Return, 0 - 50)
           \/ Lt(r.Return, 0 - 50) /\ Gt(q.Return, 100)

\* C29 (reversal-free output): the Panel filter_outlier_errors returns in
\* 'drop' mode has no stock with a rise and a fall on two rows in a row, and
\* filter_outlier_errors applied to it returns it whole.
C29_ReversalFree ==
    /\ (driver = "none" /\ pc = "returned" /\ call.fn = "filter_outlier_errors"
            /\ call.method = "drop") =>
           outcome.kind = "ok" /\ ~HasReversal(outcome.value)
    /\ (driver = "none" /\ pc = "again" /\ call.fn = "filter_outlier_errors"
            /\ call.method = "drop") =>
           outcome.kind = "ok" /\ Len(outcome.value) = Len(call.panel)

----------------------------------------------------------------------------
\* the statements of a driver that filter on static data
static_filters ==
    {"non_common", "cross_listings", "duplicate_loc", "foreign_firms", "foreign_currency"}

\* C30 (Statics frame): the static-data filters of a driver leave its Statics
\* as they are, and the duplicate-LOC filter applies its rule to all rows of
\* these Statics, the rows of securities that have lost their Panel rows
\* included.
C30_StaticsFrame ==
    [][(driver \in {"US", "EU"} /\ pc \in static_filters) =>
        /\ statics' = statics
        /\ (pc = "duplicate_loc" /\ pc' = "foreign_firms") =>
               OHLCV_panel' =
                   SelectSeq(OHLCV_panel, LAMBDA r :
                       \E i \in DOMAIN statics :
                           statics[i].DSCD = r.Stock /\ ~LosesListing(statics, i))]_vars

\* The primary listing has lost its rows as a warrant, its Statics row is
\* still there, and the secondary listing of its local code has lost its rows
\* to the duplicate-LOC filter.
C30_Witness ==
    /\ driver = "US"
    /\ pc = "foreign_firms"
    /\ statics = SharedLocStatics
    /\ OHLCV_panel = <<>>
    /\ {k : <<k, d>> \in removed} = {1, 2}

====
